---- MODULE Spec2Model ----
(***************************************************************************)
(* A model of the virtual-memory core of ostd: the VmSpace address space   *)
(* (ostd/src/mm/vm_space.rs), its cursors, the activation lock, the        *)
(* per-CPU activated-VmSpace pointer and the page-table entry codec of     *)
(* the interpreter architecture (ostd/src/arch/miri/mm/mod.rs).            *)
(*                                                                         *)
(* Every CPU runs one kernel control path at a time.  The operations that  *)
(* touch state shared between CPUs (activate, clear, cursor creation) are  *)
(* split at their shared-memory accesses; the operations of a live cursor  *)
(* (map, unmap, query, jump, protect_next, copy_from) run under the        *)
(* cursor's range lock and are one step each, with the order of their      *)
(* effects kept in the event they record.                                  *)
(***************************************************************************)
EXTENDS Integers, Sequences, FiniteSets, TLC

(***************************************************************************)
(* The CPUs of the platform (the bootstrap processor and the one           *)
(* application processor it boots), and the bounds of the model.           *)
(***************************************************************************)
NCpus == 2

NVmSpaces == 2
NPages == 2
NFrames == 2
MaxCalls == 2

CpuIds == 0 .. (NCpus - 1)
VmSpaces == 1 .. NVmSpaces
\* The null pointer of ACTIVATED_VM_SPACE, and the kernel-only root table.
NULL == 0
PageNos == 0 .. (NPages - 1)
FrameNos == 1 .. NFrames

(***************************************************************************)
(* Paging constants and the page-table entry codec.                        *)
(***************************************************************************)
PAGE_SIZE == 4096

\* The user address space of the model spans NPages base pages.
MAX_USERSPACE_VADDR == NPages * PAGE_SIZE

\* The range length above which unmap prefers one flush-all.
FLUSH_ALL_RANGE_THRESHOLD == 1 * PAGE_SIZE

PTF_VALID == 1
PTF_READABLE == 2
PTF_WRITABLE == 4
PTF_EXECUTABLE == 8
PTF_USER == 16
PTF_GLOBAL == 32
PTF_UNCACHEABLE == 64
PTF_HUGE == 128
PTF_WRITE_THROUGH == 256

\* self.0 & bit != 0, for a single-bit mask.
HasBit(raw, bit) == (raw \div bit) % 2 = 1

\* self.0 & PHYS_ADDR_MASK: bits 12..47 and bit 7 (model values stay below 2^31).
PhysAddrMasked(raw) ==
    (raw \div PAGE_SIZE) * PAGE_SIZE + (IF HasBit(raw, PTF_HUGE) THEN PTF_HUGE ELSE 0)

\* PageFlags: the access rights, and the status and available bits, which the
\* entries of this architecture have no bit for.
PageFlagNames == {"R", "W", "X", "ACCESSED", "DIRTY", "AVAIL1", "AVAIL2"}
EncodedPageFlagNames == {"R", "W", "X"}
PrivFlagNames == {"USER", "GLOBAL"}
CachePolicies == {"Writeback", "Writethrough", "Uncacheable", "WriteCombining", "WriteProtected"}
SupportedCachePolicies == {"Writeback", "Writethrough", "Uncacheable"}

PageProperties ==
    [flags : SUBSET PageFlagNames, priv_flags : SUBSET PrivFlagNames, cache : CachePolicies]

\* PageProperty::new(flags, cache): the privilege flags of a user mapping.
NewPageProperty(flags, cache) ==
    [flags |-> flags, priv_flags |-> {"USER"}, cache |-> cache]

\* parse_flags!(val, from, to) for one flag held in a set, giving the bit `to`.
ParseFlag(set, name, to) == IF name \in set THEN to ELSE 0

PteIsPresent(raw) == HasBit(raw, PTF_VALID) \/ HasBit(raw, PTF_HUGE)

PteIsLast(raw) == HasBit(raw, PTF_HUGE)

PtePaddr(raw) == (raw \div PAGE_SIZE) * PAGE_SIZE

\* A faulty set_prop: every cache policy is stored, as write-back if it has no bit.
SetPropNeverPanics(prop) == FALSE

\* set_prop panics on the cache policies it does not encode.
SetPropPanics(prop) == prop.cache \notin SupportedCachePolicies

PteSetProp(raw, prop) ==
    LET flags == PTF_VALID
                 + ParseFlag(prop.flags, "R", PTF_READABLE)
                 + ParseFlag(prop.flags, "W", PTF_WRITABLE)
                 + ParseFlag(prop.flags, "X", PTF_EXECUTABLE)
                 + ParseFlag(prop.priv_flags, "USER", PTF_USER)
                 + ParseFlag(prop.priv_flags, "GLOBAL", PTF_GLOBAL)
        cache == CASE prop.cache = "Writethrough" -> PTF_WRITE_THROUGH
                   [] prop.cache = "Uncacheable" -> PTF_UNCACHEABLE
                   [] OTHER -> 0
    IN  PhysAddrMasked(raw) + flags + cache

PteNewPage(paddr, level, prop) == PteSetProp(paddr + PTF_HUGE, prop)

PteNewPt(paddr) == paddr + PTF_VALID

\* A faulty decoder: the write-through bit is not looked at.
PtePropNoWriteThrough(raw) ==
    [flags |-> {f \in PageFlagNames :
                    \/ f = "R" /\ HasBit(raw, PTF_READABLE)
                    \/ f = "W" /\ HasBit(raw, PTF_WRITABLE)
                    \/ f = "X" /\ HasBit(raw, PTF_EXECUTABLE)},
     priv_flags |-> {f \in PrivFlagNames :
                    \/ f = "USER" /\ HasBit(raw, PTF_USER)
                    \/ f = "GLOBAL" /\ HasBit(raw, PTF_GLOBAL)},
     cache |-> IF HasBit(raw, PTF_UNCACHEABLE) THEN "Uncacheable" ELSE "Writeback"]

PteProp(raw) ==
    [flags |-> {f \in PageFlagNames :
                    \/ f = "R" /\ HasBit(raw, PTF_READABLE)
                    \/ f = "W" /\ HasBit(raw, PTF_WRITABLE)
                    \/ f = "X" /\ HasBit(raw, PTF_EXECUTABLE)},
     priv_flags |-> {f \in PrivFlagNames :
                    \/ f = "USER" /\ HasBit(raw, PTF_USER)
                    \/ f = "GLOBAL" /\ HasBit(raw, PTF_GLOBAL)},
     cache |-> IF HasBit(raw, PTF_UNCACHEABLE) THEN "Uncacheable"
               ELSE IF HasBit(raw, PTF_WRITE_THROUGH) THEN "Writethrough"
               ELSE "Writeback"]

\* The absent entry: the all-zero PTE.
PteAbsent == 0

FramePaddr(f) == f * PAGE_SIZE

(***************************************************************************)
(* State.                                                                  *)
(***************************************************************************)
VARIABLES
    pt,          \* pt[vs][page]: the raw leaf entry of each user page of a VmSpace
    cpus,        \* cpus[vs]: VmSpace::cpus
    rw,          \* rw[vs]: VmSpace::activation_lock, readers and writer
    activated,   \* activated[cpu]: ACTIVATED_VM_SPACE of the CPU
    root,        \* root[cpu]: the root table loaded on the CPU
    cursors,     \* the live cursors
    pc,          \* pc[cpu]: the operation the CPU is inside, with its locals
    calls,       \* the number of operations called so far
    last,        \* the event of the latest step: what was called, what it returned
    page_fault_handler,  \* page_fault_handler[vs]: VmSpace::page_fault_handler
    ref_count,   \* ref_count[f]: the reference count in the metadata slot of frame f
    free_frames, \* the frames the frame allocator has to hand out
    handles,     \* handles[f]: the live handles of frame f, held by callers and by mappings
    leaves,      \* the leaf entries of a page table with pages of several sizes
    leaf_cursor, \* the cursor of that page table, if one is alive
    upper_half,  \* upper_half[t]: the upper-half entries of the root table of each
                 \* VmSpace that exists, and of the kernel page table (NULL)
    CALL_QUEUES, \* CALL_QUEUES[cpu]: the functions queued for the CPU by other CPUs
    ipi_pending, \* ipi_pending[cpu]: the inter-processor-call interrupt is pending there
    ipc_pc,      \* ipc_pc[cpu]: where the CPU is in inter_processor_call or its handler
    ipc_calls,   \* the calls of inter_processor_call made so far, in order
    ran,         \* the executions of f so far: of which call, on which CPU, in which context
    PAGE_STATES, \* PAGE_STATES[page]: the state of each physical page
    pt_cursor,   \* a page-table cursor over slots that hold items of any kind
    raw_refs,    \* raw_refs[vs]: the references to the VmSpace that activate() turned
                 \* into raw pointers and has not restored
    PHYSICAL_MEM \* PHYSICAL_MEM[page][k]: the words of the physical memory of the
                 \* interpreter, where the page tables it walks are

vars == <<pt, cpus, rw, activated, root, cursors, pc, calls, last, page_fault_handler,
          ref_count, free_frames, handles, leaves, leaf_cursor, upper_half,
          CALL_QUEUES, ipi_pending, ipc_pc, ipc_calls, ran, PAGE_STATES, pt_cursor,
          raw_refs, PHYSICAL_MEM>>

\* The address space, its cursors and the CPUs' control paths.
vmVars == <<pt, cpus, rw, activated, root, cursors, pc, raw_refs>>

\* The state that activate, clear and the operations of cursors leave alone.
\* The frames: the metadata slots, the allocator and the handles.
frameVars == <<ref_count, free_frames, handles>>

\* The page table with pages of several sizes.
levelVars == <<leaves, leaf_cursor, pt_cursor>>

\* Inter-processor calls: the queues, the interrupts and the CPUs' positions.
smpVars == <<CALL_QUEUES, ipi_pending, ipc_pc, ipc_calls, ran>>

\* The platform under the address spaces: inter-processor calls, page states and the
\* physical memory.
platformVars == <<smpVars, PAGE_STATES, PHYSICAL_MEM>>

restVars == <<page_fault_handler, frameVars, levelVars, upper_half, platformVars>>

Idle == [op |-> "idle"]

NoEvent == [kind |-> "none"]

Panicked == last.kind = "panic"

\* A call is counted; no operation is called after a panic.
Budget == ~Panicked /\ calls < MaxCalls /\ calls' = calls + 1

\* A step that calls an operation of the address space, and a step inside one.
Called == Budget /\ UNCHANGED <<restVars, raw_refs>>

Inside == ~Panicked /\ calls' = calls /\ UNCHANGED <<restVars, raw_refs>>

\* A step inside activate() that takes or restores a raw reference.
InsideRefs == ~Panicked /\ calls' = calls /\ UNCHANGED restVars

(***************************************************************************)
(* The activation lock (a reader/writer spin lock).                        *)
(***************************************************************************)
RwUnlocked == [readers |-> 0, writer |-> FALSE]

TryWriteOk(l) == l.readers = 0 /\ ~l.writer

TryReadOk(l) == ~l.writer

(***************************************************************************)
(* Cursors.  A cursor is owned by the CPU that created it (it pins the     *)
(* CPU), covers [lo, hi) of one VmSpace and stands at va.  A mutable       *)
(* cursor carries its TLB flusher: the CPU set captured at creation.       *)
(***************************************************************************)
CursorsOf(vs) == {k \in cursors : k.vs = vs}

MutCursorsOf(vs) == {k \in cursors : k.vs = vs /\ k.mut}

Overlap(lo1, hi1, lo2, hi2) == lo1 < hi2 /\ lo2 < hi1

\* The ranges of a page table that are locked: by a live cursor, or by a mutable
\* cursor under construction that already holds its page-table cursor.
LockedRanges(vs) ==
    {<<k.lo, k.hi>> : k \in CursorsOf(vs)}
    \cup {<<pc[c].lo, pc[c].hi>> : c \in {d \in CpuIds : pc[d].op \in {"cm_read", "cm_load"}
                                                        /\ pc[d].vs = vs}}

RangeFree(vs, lo, hi) == \A r \in LockedRanges(vs) : ~Overlap(lo, hi, r[1], r[2])

\* The range check of cursor creation on a user page table.
RangeValid(lo, hi) ==
    /\ lo < hi
    /\ lo % PAGE_SIZE = 0
    /\ hi % PAGE_SIZE = 0
    /\ hi <= MAX_USERSPACE_VADDR

NeedRemoteFlush(k) == k.fcpus \ {k.cpu} # {}

NeedSelfFlush(k) == k.cpu \in k.fcpus

(***************************************************************************)
(* The page-table cursor operations on the user half of one table.         *)
(***************************************************************************)
PageOf(va) == va \div PAGE_SIZE

EmptyTable == [p \in PageNos |-> PteAbsent]

\* query(): the slot at va.
QueryItem(table, va) ==
    LET raw == table[PageOf(va)]
    IN  IF PteIsPresent(raw) /\ PteIsLast(raw)
        THEN [kind |-> "Mapped", va |-> va, paddr |-> PtePaddr(raw), prop |-> PteProp(raw)]
        ELSE [kind |-> "NotMapped", va |-> va]

\* map(frame, prop) at va: the new table and the frame replaced (0 if none).
PtMap(table, va, paddr, prop) ==
    LET raw == table[PageOf(va)]
    IN  [pt |-> [table EXCEPT ![PageOf(va)] = PteNewPage(paddr, 1, prop)],
         old |-> IF PteIsPresent(raw) THEN PtePaddr(raw) ELSE 0]

\* take_next(len) at va: removes the first mapping in [va, va + len).
TakeNext(table, va, len) ==
    LET present == {p \in PageNos : /\ va <= p * PAGE_SIZE
                                    /\ p * PAGE_SIZE < va + len
                                    /\ PteIsPresent(table[p])}
    IN  IF present = {}
        THEN [pt |-> table, va |-> va + len, item |-> [kind |-> "NotMapped", va |-> va]]
        ELSE LET p == CHOOSE q \in present : \A r \in present : q <= r
             IN  [pt |-> [table EXCEPT ![p] = PteAbsent],
                  va |-> (p + 1) * PAGE_SIZE,
                  item |-> [kind |-> "Mapped", va |-> p * PAGE_SIZE,
                            paddr |-> PtePaddr(table[p]), prop |-> PteProp(table[p])]]

\* PageTable::clear(): every user entry becomes absent.
PtClear(table) == EmptyTable

\* The closures the callers pass to protect_next and copy_from.
PropOps == {"remove_write", "set_cache_writeback"}

ApplyOp(op, prop) ==
    CASE op = "remove_write" -> [prop EXCEPT !.flags = @ \ {"W"}]
      [] op = "set_cache_writeback" -> [prop EXCEPT !.cache = "Writeback"]

\* The pages of [va, va + len) that hold a mapping.
PresentIn(table, va, len) ==
    {p \in PageNos : /\ va <= p * PAGE_SIZE
                     /\ p * PAGE_SIZE < va + len
                     /\ PteIsPresent(table[p])}

\* The entry with op applied to its property; the frame stays.
PteProtect(raw, op) == PteSetProp(raw, ApplyOp(op, PteProp(raw)))

\* protect_next(len, op) at va: op is applied to the first mapping in [va, va + len);
\* the range protected (empty for None) and the address the cursor moves to.
ProtectNextPt(table, va, len, op) ==
    LET present == PresentIn(table, va, len)
    IN  IF present = {}
        THEN [pt |-> table, va |-> va + len, range |-> <<>>]
        ELSE LET p == CHOOSE q \in present : \A r \in present : q <= r
             IN  [pt |-> [table EXCEPT ![p] = PteProtect(@, op)],
                  va |-> (p + 1) * PAGE_SIZE,
                  range |-> <<p * PAGE_SIZE, (p + 1) * PAGE_SIZE>>]

\* A faulty protection: the entries of the source are left as they are.
PtProtectNothing(table, va, len, op) == table

\* copy_from, the protection: op is applied to every mapping of the source in
\* [va, va + len) before it is copied.
PtProtectRange(table, va, len, op) ==
    [p \in PageNos |-> IF p \in PresentIn(table, va, len)
                       THEN PteProtect(table[p], op)
                       ELSE table[p]]

\* copy_from, the duplication: every mapping of src in [sva, sva + len) is mapped at
\* the same offset from dva in dst, with the same frame and property.
PtDuplicate(dst, dva, src, sva, len) ==
    [p \in PageNos |->
        LET sp == p - PageOf(dva) + PageOf(sva)
        IN  IF sp \in PresentIn(src, sva, len)
            THEN PteNewPage(PtePaddr(src[sp]), 1, PteProp(src[sp]))
            ELSE dst[p]]

\* jump(va): the address must be in the range of the cursor.
JumpOk(k, va) == va % PAGE_SIZE = 0 /\ k.lo <= va /\ va < k.hi

(***************************************************************************)
(* Events of the TLB flusher and of frame handles, in program order.       *)
(***************************************************************************)
OpAddress(va) == [t |-> "Address", va |-> va]

OpAll == [t |-> "All", va |-> 0]

NoOp == [t |-> "None", va |-> 0]

EvTake(va, paddr) == [ev |-> "take", va |-> va, paddr |-> paddr, op |-> NoOp]

\* issue_tlb_flush_with(op, frame); issue_tlb_flush(op) keeps no frame (paddr 0).
EvIssue(op, va, paddr) == [ev |-> "issue", va |-> va, paddr |-> paddr, op |-> op]

EvDrop(va, paddr) == [ev |-> "drop", va |-> va, paddr |-> paddr, op |-> NoOp]

EvDispatch == [ev |-> "dispatch", va |-> 0, paddr |-> 0, op |-> NoOp]

\* dispatch_tlb_flush(): the flushes issued so far are performed, then the frames the
\* flusher was handed with them are dropped.
DispatchTlbFlush(log) ==
    LET kept == SelectSeq(log, LAMBDA e : e.ev = "issue" /\ e.paddr # 0)
    IN  log \o <<EvDispatch>> \o [i \in 1 .. Len(kept) |-> EvDrop(kept[i].va, kept[i].paddr)]

(***************************************************************************)
(* Initial state: no operation is in progress and no cursor is alive.  The *)
(* first VmSpace is in use: a frame has been mapped at each of its pages,  *)
(* and it is activated on the first CPU.  Every other VmSpace is new, and  *)
(* every other CPU runs on the kernel-only table.                          *)
(***************************************************************************)
\* No handle of any frame: every frame is unused and the allocator has it.
NoHandle == [held |-> 0, mapped |-> 0]

FramesInit ==
    /\ ref_count = [f \in FrameNos |-> 0]
    /\ free_frames = FrameNos
    /\ handles = [f \in FrameNos |-> NoHandle]

\* The upper half of a root table: the entries of index NR_ENTRIES / 2 and above.
NR_ENTRIES == 2

UpperIdx == (NR_ENTRIES \div 2) .. (NR_ENTRIES - 1)

\* The upper half of the kernel page table after boot: every entry points to a node.
BootUpperHalf == [i \in UpperIdx |-> [paddr |-> FramePaddr(NFrames + i), node |-> TRUE]]

\* An empty page table, and no cursor.
NoCursor == [alive |-> FALSE, lo |-> 0, hi |-> 0, va |-> 0]

\* No item is mapped in any slot, and the cursor of the slots stands at the first.
NoItems == [items |-> [p \in PageNos |-> "NotMapped"], va |-> 0]

LevelsInit ==
    /\ leaves = {}
    /\ leaf_cursor = NoCursor
    /\ pt_cursor = NoItems

\* The physical pages, TOTAL_MEM / PAGE_SIZE of them, scaled down: the first
\* KERNEL_MEM / PAGE_SIZE of them hold the kernel.
TOTAL_PAGES == 4
KERNEL_PAGES == 1

PhysPages == 0 .. (TOTAL_PAGES - 1)

Unused == [state |-> "Unused"]
Untyped == [state |-> "Untyped"]
Typed(page_type) == [state |-> "Typed", page_type |-> page_type]

\* init_miri_physical_mem(): every page is Unused but the pages of the kernel.
PageStatesInit ==
    PAGE_STATES = [i \in PhysPages |-> IF i < KERNEL_PAGES THEN Typed("Interpreter")
                                       ELSE Unused]

\* No inter-processor call was made: the queues are empty, no interrupt is pending.
SmpIdle == [op |-> "idle"]

SmpInit ==
    /\ CALL_QUEUES = [c \in CpuIds |-> <<>>]
    /\ ipi_pending = [c \in CpuIds |-> FALSE]
    /\ ipc_pc = [c \in CpuIds |-> SmpIdle]
    /\ ipc_calls = <<>>
    /\ ran = {}

\* A raw reference was taken for every CPU whose ACTIVATED_VM_SPACE points to a VmSpace.
RefsInit ==
    raw_refs = [vs \in VmSpaces |-> Cardinality({c \in CpuIds : activated[c] = vs})]

(***************************************************************************)
(* The page tables in the physical memory of the interpreter, scaled down: *)
(* NR_LEVELS levels of tables of PTE_PER_PAGE entries, in a memory of      *)
(* TOTAL_MEM_PAGES pages, which is as many pages as init_boot_pt maps.     *)
(***************************************************************************)
NR_LEVELS == 4
PTE_PER_PAGE == 4
TOTAL_MEM_PAGES == 8

MemPages == 0 .. (TOTAL_MEM_PAGES - 1)
PteIndexes == 0 .. (PTE_PER_PAGE - 1)
TOTAL_MEM == TOTAL_MEM_PAGES * PAGE_SIZE

\* The bytes that an entry of a table of the level maps.
LevelSize(level) == PAGE_SIZE * PTE_PER_PAGE ^ (level - 1)

\* pte_index(va, level)
PteIndex(va, level) == (va \div LevelSize(level)) % PTE_PER_PAGE

\* The bases of the linear mapping and of the kernel code: the entry in the middle of
\* the root table; and the last entry of the root table, the last but one of the next.
LINEAR_MAPPING_BASE_VADDR == (PTE_PER_PAGE \div 2) * LevelSize(NR_LEVELS)
KERNEL_CODE_BASE_VADDR ==
    (PTE_PER_PAGE - 1) * LevelSize(NR_LEVELS) + (PTE_PER_PAGE - 2) * LevelSize(NR_LEVELS - 1)

BOOT_PT_PADDR == 1 * PAGE_SIZE
BOOT_PT_PDPT_PADDR == 2 * PAGE_SIZE
BOOT_PT_PD_0G_1G == 3 * PAGE_SIZE
BOOT_PT_PT_ADDR == 5 * PAGE_SIZE

\* page_num: the tables of the last level that map the whole memory.
BootPageNum == TOTAL_MEM \div (PAGE_SIZE * PTE_PER_PAGE)

\* The memory after init_boot_pt: mem[page][k] is the k-th word of the page.  The
\* entries are the addresses as they are, with no flag.
InitBootPt ==
    [page \in MemPages |->
        [k \in PteIndexes |->
            CASE page * PAGE_SIZE = BOOT_PT_PADDR ->
                    IF k \in {0, PTE_PER_PAGE \div 2, PTE_PER_PAGE - 1}
                    THEN BOOT_PT_PDPT_PADDR ELSE 0
              [] page * PAGE_SIZE = BOOT_PT_PDPT_PADDR ->
                    IF k \in {0, PTE_PER_PAGE - 2} THEN BOOT_PT_PD_0G_1G ELSE 0
              [] page * PAGE_SIZE = BOOT_PT_PD_0G_1G ->
                    IF k < BootPageNum THEN BOOT_PT_PT_ADDR + k * PAGE_SIZE ELSE 0
              [] /\ page * PAGE_SIZE >= BOOT_PT_PT_ADDR
                 /\ page * PAGE_SIZE < BOOT_PT_PT_ADDR + BootPageNum * PAGE_SIZE ->
                    (((page * PAGE_SIZE - BOOT_PT_PT_ADDR) \div PAGE_SIZE) * PTE_PER_PAGE + k)
                        * PAGE_SIZE
              [] OTHER -> 0]]

MemInit == PHYSICAL_MEM = InitBootPt

PlatformInit == SmpInit /\ PageStatesInit /\ RefsInit /\ MemInit

\* No page-fault handler is registered in a new VmSpace.  The accounting of frames
\* is followed in the specification of frames only.
RestInit ==
    /\ page_fault_handler = [vs \in VmSpaces |-> NULL]
    /\ FramesInit
    /\ LevelsInit
    /\ upper_half = [t \in {NULL} \cup VmSpaces |-> BootUpperHalf]
    /\ PlatformInit

\* The table of a VmSpace after a frame was mapped read-write at each page.
MappedTable ==
    [p \in PageNos |->
        PteNewPage(FramePaddr(1), 1, NewPageProperty({"R", "W"}, "Writeback"))]

Init ==
    /\ pt = [vs \in VmSpaces |-> IF vs = 1 THEN MappedTable ELSE EmptyTable]
    /\ cpus = [vs \in VmSpaces |-> IF vs = 1 THEN {0} ELSE {}]
    /\ rw = [vs \in VmSpaces |-> RwUnlocked]
    /\ activated = [c \in CpuIds |-> IF c = 0 THEN 1 ELSE NULL]
    /\ root = [c \in CpuIds |-> IF c = 0 THEN 1 ELSE NULL]
    /\ cursors = {}
    /\ pc = [c \in CpuIds |-> Idle]
    /\ calls = 0
    /\ last = NoEvent
    /\ RestInit

(***************************************************************************)
(* VmSpace::activate, on CPU c.                                            *)
(***************************************************************************)
\* Lines 134-141: load ACTIVATED_VM_SPACE; nothing to do when it is this VmSpace.
Activate(c, vs) ==
    /\ Called
    /\ pc[c].op = "idle"
    /\ IF activated[c] = vs
       THEN /\ last' = [kind |-> "activate_same", cpu |-> c, vs |-> vs]
            /\ UNCHANGED <<pt, cpus, rw, activated, root, cursors, pc>>
       ELSE /\ pc' = [pc EXCEPT ![c] = [op |-> "act_lock", vs |-> vs, last_ptr |-> activated[c]]]
            /\ last' = NoEvent
            /\ UNCHANGED <<pt, cpus, rw, activated, root, cursors>>

\* A faulty activate: it does not wait for the readers of the activation lock.
ActivateLockIgnoringReaders(c) ==
    /\ Inside
    /\ pc[c].op = "act_lock"
    /\ ~rw[pc[c].vs].writer
    /\ rw' = [rw EXCEPT ![pc[c].vs].writer = TRUE]
    /\ pc' = [pc EXCEPT ![c].op = "act_add"]
    /\ last' = NoEvent
    /\ UNCHANGED <<pt, cpus, activated, root, cursors>>

\* Line 145: activation_lock.write() spins until no reader and no writer holds it.
ActivateLock(c) ==
    /\ Inside
    /\ pc[c].op = "act_lock"
    /\ TryWriteOk(rw[pc[c].vs])
    /\ rw' = [rw EXCEPT ![pc[c].vs].writer = TRUE]
    /\ pc' = [pc EXCEPT ![c].op = "act_add"]
    /\ last' = NoEvent
    /\ UNCHANGED <<pt, cpus, activated, root, cursors>>

\* Line 148: self.cpus.add(cpu).
ActivateAdd(c) ==
    /\ Inside
    /\ pc[c].op = "act_add"
    /\ cpus' = [cpus EXCEPT ![pc[c].vs] = @ \cup {c}]
    /\ pc' = [pc EXCEPT ![c].op = "act_store"]
    /\ last' = NoEvent
    /\ UNCHANGED <<pt, rw, activated, root, cursors>>

\* Lines 149-150: ACTIVATED_VM_SPACE.store(self_ptr).
ActivateStore(c) ==
    /\ InsideRefs
    /\ pc[c].op = "act_store"
    /\ raw_refs' = [raw_refs EXCEPT ![pc[c].vs] = @ + 1]
    /\ activated' = [activated EXCEPT ![c] = pc[c].vs]
    /\ pc' = [pc EXCEPT ![c].op = "act_remove"]
    /\ last' = NoEvent
    /\ UNCHANGED <<pt, cpus, rw, root, cursors>>

\* A faulty activate: the CPU stays in the CPU set of the VmSpace activated before.
ActivateRemoveNothing(c) ==
    /\ Inside
    /\ pc[c].op = "act_remove"
    /\ pc' = [pc EXCEPT ![c].op = "act_switch"]
    /\ last' = NoEvent
    /\ UNCHANGED <<pt, cpus, rw, activated, root, cursors>>

\* Lines 152-157: the CPU leaves the CPU set of the VmSpace activated before.
ActivateRemove(c) ==
    /\ InsideRefs
    /\ pc[c].op = "act_remove"
    /\ cpus' = IF pc[c].last_ptr # NULL
               THEN [cpus EXCEPT ![pc[c].last_ptr] = @ \ {c}]
               ELSE cpus
    /\ raw_refs' = IF pc[c].last_ptr # NULL
                   THEN [raw_refs EXCEPT ![pc[c].last_ptr] = @ - 1]
                   ELSE raw_refs
    /\ pc' = [pc EXCEPT ![c].op = "act_switch"]
    /\ last' = NoEvent
    /\ UNCHANGED <<pt, rw, activated, root, cursors>>

\* Line 159-160: self.pt.activate() loads the root table; the write guard is dropped.
ActivateSwitch(c) ==
    /\ Inside
    /\ pc[c].op = "act_switch"
    /\ root' = [root EXCEPT ![c] = pc[c].vs]
    /\ rw' = [rw EXCEPT ![pc[c].vs].writer = FALSE]
    /\ pc' = [pc EXCEPT ![c] = Idle]
    /\ last' = [kind |-> "activate", cpu |-> c, vs |-> pc[c].vs, prev |-> pc[c].last_ptr]
    /\ UNCHANGED <<pt, cpus, activated, cursors>>

(***************************************************************************)
(* VmSpace::clear, on CPU c.                                               *)
(***************************************************************************)
\* The result of clear() with what held when it was called.
ClearEvent(c, vs, res, seen, log, atCall) ==
    [kind |-> "clear", cpu |-> c, vs |-> vs, res |-> res, cpus |-> seen, log |-> log,
     at_call |-> atCall]

\* The state of a VmSpace that clear() finds when it is called.
AtCall(vs) ==
    [mut_cursor |-> MutCursorsOf(vs) # {}, cursor |-> CursorsOf(vs) # {},
     readers |-> rw[vs].readers, cpus |-> cpus[vs], pt |-> pt[vs]]

\* A faulty clear: it takes the lock although readers hold it.
ClearIgnoringReaders(c, vs) ==
    /\ Called
    /\ pc[c].op = "idle"
    /\ IF ~rw[vs].writer
       THEN /\ rw' = [rw EXCEPT ![vs].writer = TRUE]
            /\ pc' = [pc EXCEPT ![c] = [op |-> "clr_load", vs |-> vs, seen |-> {},
                                        at_call |-> AtCall(vs)]]
            /\ last' = NoEvent
            /\ UNCHANGED <<pt, cpus, activated, root, cursors>>
       ELSE /\ last' = ClearEvent(c, vs, "CursorsAlive", {}, <<>>, AtCall(vs))
            /\ UNCHANGED <<pt, cpus, rw, activated, root, cursors, pc>>

\* Lines 74-78: try_write() or Err(CursorsAlive).
Clear(c, vs) ==
    /\ Called
    /\ pc[c].op = "idle"
    /\ IF TryWriteOk(rw[vs])
       THEN /\ rw' = [rw EXCEPT ![vs].writer = TRUE]
            /\ pc' = [pc EXCEPT ![c] = [op |-> "clr_load", vs |-> vs, seen |-> {},
                                        at_call |-> AtCall(vs)]]
            /\ last' = NoEvent
            /\ UNCHANGED <<pt, cpus, activated, root, cursors>>
       ELSE /\ last' = ClearEvent(c, vs, "CursorsAlive", {}, <<>>, AtCall(vs))
            /\ UNCHANGED <<pt, cpus, rw, activated, root, cursors, pc>>

\* Line 80: let cpus = self.cpus.load().
ClearLoad(c) ==
    /\ Inside
    /\ pc[c].op = "clr_load"
    /\ pc' = [pc EXCEPT ![c].op = "clr_do", ![c].seen = cpus[pc[c].vs]]
    /\ last' = NoEvent
    /\ UNCHANGED <<pt, cpus, rw, activated, root, cursors>>

\* A faulty clear: no flush of the local TLB after the table is cleared.
ClearDoNoFlush(c) ==
    /\ Inside
    /\ pc[c].op = "clr_do"
    /\ LET vs == pc[c].vs
           seen == pc[c].seen
           cpus_set_is_empty == seen = {}
           cpus_set_is_single_self == Cardinality(seen) = 1 /\ c \in seen
       IN  IF cpus_set_is_empty \/ cpus_set_is_single_self
           THEN /\ pt' = [pt EXCEPT ![vs] = PtClear(@)]
                /\ last' = ClearEvent(c, vs, "Ok", seen, <<"pt_clear">>, pc[c].at_call)
           ELSE /\ pt' = pt
                /\ last' = ClearEvent(c, vs, "PageTableActivated", seen, <<>>,
                                      pc[c].at_call)
    /\ rw' = [rw EXCEPT ![pc[c].vs].writer = FALSE]
    /\ pc' = [pc EXCEPT ![c] = Idle]
    /\ UNCHANGED <<cpus, activated, root, cursors>>

\* Lines 81-96: clear the table and flush locally, or Err(PageTableActivated).
ClearDo(c) ==
    /\ Inside
    /\ pc[c].op = "clr_do"
    /\ LET vs == pc[c].vs
           seen == pc[c].seen
           cpus_set_is_empty == seen = {}
           cpus_set_is_single_self == Cardinality(seen) = 1 /\ c \in seen
       IN  IF cpus_set_is_empty \/ cpus_set_is_single_self
           THEN /\ pt' = [pt EXCEPT ![vs] = PtClear(@)]
                /\ last' = ClearEvent(c, vs, "Ok", seen,
                                      IF cpus_set_is_single_self
                                      THEN <<"pt_clear", "tlb_flush_all_excluding_global">>
                                      ELSE <<"pt_clear">>,
                                      pc[c].at_call)
           ELSE /\ pt' = pt
                /\ last' = ClearEvent(c, vs, "PageTableActivated", seen, <<>>,
                                      pc[c].at_call)
    /\ rw' = [rw EXCEPT ![pc[c].vs].writer = FALSE]
    /\ pc' = [pc EXCEPT ![c] = Idle]
    /\ UNCHANGED <<cpus, activated, root, cursors>>

(***************************************************************************)
(* VmSpace::cursor and VmSpace::cursor_mut, on CPU c.                      *)
(***************************************************************************)
\* The CPUs that are inside cursor() or cursor_mut().
Creating == {d \in CpuIds : pc[d].op \in {"cur_lock", "cm_read", "cm_load"}}

NewCursor(c, vs, mut, lo, hi, fcpus) ==
    [cpu |-> c, vs |-> vs, mut |-> mut, lo |-> lo, hi |-> hi, va |-> lo, fcpus |-> fcpus]

\* A faulty cursor creation: the result of the range check is not looked at.
CursorCallUnchecked(c, vs, mut, lo, hi) ==
    /\ Called
    /\ pc[c].op = "idle"
    /\ pc' = [pc EXCEPT ![c] = [op |-> "cur_lock", vs |-> vs, mut |-> mut,
                                 lo |-> lo, hi |-> hi]]
    /\ last' = NoEvent
    /\ UNCHANGED <<pt, cpus, rw, activated, root, cursors>>

\* The call: the page-table cursor checks the range, Err(InvalidArgs) if it is bad.
CursorCall(c, vs, mut, lo, hi) ==
    /\ Called
    /\ pc[c].op = "idle"
    /\ IF RangeValid(lo, hi)
       THEN /\ pc' = [pc EXCEPT ![c] = [op |-> "cur_lock", vs |-> vs, mut |-> mut,
                                        lo |-> lo, hi |-> hi]]
            /\ last' = NoEvent
       ELSE /\ pc' = pc
            /\ last' = [kind |-> "cursor_err", err |-> "InvalidArgs", cpu |-> c, vs |-> vs,
                        mut |-> mut, lo |-> lo, hi |-> hi]
    /\ UNCHANGED <<pt, cpus, rw, activated, root, cursors>>

\* A faulty cursor creation: it does not wait for the range to be free.
CursorLockIgnoringRange(c) ==
    /\ Inside
    /\ pc[c].op = "cur_lock"
    /\ IF pc[c].mut
       THEN /\ pc' = [pc EXCEPT ![c].op = "cm_read"]
            /\ cursors' = cursors
            /\ last' = NoEvent
       ELSE /\ pc' = [pc EXCEPT ![c] = Idle]
            /\ cursors' = cursors \cup {NewCursor(c, pc[c].vs, FALSE, pc[c].lo, pc[c].hi, {})}
            /\ last' = [kind |-> "cursor", cpu |-> c, vs |-> pc[c].vs]
    /\ UNCHANGED <<pt, cpus, rw, activated, root>>

\* self.pt.cursor(va) / self.pt.cursor_mut(va): waits until the range is free.  A
\* read-only cursor is complete here (line 107); a mutable one goes on (line 121).
CursorLock(c) ==
    /\ Inside
    /\ pc[c].op = "cur_lock"
    /\ RangeFree(pc[c].vs, pc[c].lo, pc[c].hi)
    /\ IF pc[c].mut
       THEN /\ pc' = [pc EXCEPT ![c].op = "cm_read"]
            /\ cursors' = cursors
            /\ last' = NoEvent
       ELSE /\ pc' = [pc EXCEPT ![c] = Idle]
            /\ cursors' = cursors \cup {NewCursor(c, pc[c].vs, FALSE, pc[c].lo, pc[c].hi, {})}
            /\ last' = [kind |-> "cursor", cpu |-> c, vs |-> pc[c].vs]
    /\ UNCHANGED <<pt, cpus, rw, activated, root>>

\* Line 122: self.activation_lock.read() spins while a writer holds the lock.
CursorMutRead(c) ==
    /\ Inside
    /\ pc[c].op = "cm_read"
    /\ TryReadOk(rw[pc[c].vs])
    /\ rw' = [rw EXCEPT ![pc[c].vs].readers = @ + 1]
    /\ pc' = [pc EXCEPT ![c].op = "cm_load"]
    /\ last' = NoEvent
    /\ UNCHANGED <<pt, cpus, activated, root, cursors>>

\* A faulty cursor_mut: the flusher is created with an empty CPU set.
CursorMutLoadNothing(c) ==
    /\ Inside
    /\ pc[c].op = "cm_load"
    /\ cursors' = cursors \cup {NewCursor(c, pc[c].vs, TRUE, pc[c].lo, pc[c].hi, {})}
    /\ pc' = [pc EXCEPT ![c] = Idle]
    /\ last' = [kind |-> "cursor", cpu |-> c, vs |-> pc[c].vs]
    /\ UNCHANGED <<pt, cpus, rw, activated, root>>

\* Lines 124-128: the flusher captures self.cpus.load(); the cursor is returned.
CursorMutLoad(c) ==
    /\ Inside
    /\ pc[c].op = "cm_load"
    /\ cursors' = cursors \cup {NewCursor(c, pc[c].vs, TRUE, pc[c].lo, pc[c].hi, cpus[pc[c].vs])}
    /\ pc' = [pc EXCEPT ![c] = Idle]
    /\ last' = [kind |-> "cursor", cpu |-> c, vs |-> pc[c].vs]
    /\ UNCHANGED <<pt, cpus, rw, activated, root>>

\* Dropping a cursor releases its range and, if mutable, its read guard.
DropCursor(c, k) ==
    /\ Inside
    /\ pc[c].op = "idle"
    /\ k \in cursors
    /\ k.cpu = c
    /\ cursors' = cursors \ {k}
    /\ rw' = IF k.mut THEN [rw EXCEPT ![k.vs].readers = @ - 1] ELSE rw
    /\ last' = NoEvent
    /\ UNCHANGED <<pt, cpus, activated, root, pc>>

(***************************************************************************)
(* CursorMut::map and CursorMut::unmap, on the CPU that owns the cursor.   *)
(***************************************************************************)
Moved(k, va) == [k EXCEPT !.va = va]

\* A faulty map: the frame that was mapped before is not looked at.
MapLeakingOld(c, k, f, prop) ==
    /\ Called
    /\ pc[c].op = "idle"
    /\ k \in cursors
    /\ k.cpu = c
    /\ k.mut
    /\ k.va < k.hi
    /\ IF SetPropPanics(prop)
       THEN /\ last' = [kind |-> "panic", op |-> "map", what |-> "unsupported cache policy"]
            /\ UNCHANGED <<pt, cursors>>
       ELSE LET start_va == k.va
                m == PtMap(pt[k.vs], start_va, FramePaddr(f), prop)
                log == <<>>
            IN  /\ pt' = [pt EXCEPT ![k.vs] = m.pt]
                /\ cursors' = (cursors \ {k}) \cup {Moved(k, start_va + PAGE_SIZE)}
                /\ last' = [kind |-> "map", cpu |-> c, vs |-> k.vs, va |-> start_va,
                            paddr |-> FramePaddr(f), prop |-> prop, log |-> log]
    /\ UNCHANGED <<cpus, rw, activated, root, pc>>

\* A faulty map: the flush of the replaced mapping is issued and never dispatched.
MapNoDispatch(c, k, f, prop) ==
    /\ Called
    /\ pc[c].op = "idle"
    /\ k \in cursors
    /\ k.cpu = c
    /\ k.mut
    /\ k.va < k.hi
    /\ IF SetPropPanics(prop)
       THEN /\ last' = [kind |-> "panic", op |-> "map", what |-> "unsupported cache policy"]
            /\ UNCHANGED <<pt, cursors>>
       ELSE LET start_va == k.va
                m == PtMap(pt[k.vs], start_va, FramePaddr(f), prop)
                log == IF m.old # 0
                       THEN <<EvTake(start_va, m.old),
                              EvIssue(OpAddress(start_va), start_va, m.old)>>
                       ELSE <<>>
            IN  /\ pt' = [pt EXCEPT ![k.vs] = m.pt]
                /\ cursors' = (cursors \ {k}) \cup {Moved(k, start_va + PAGE_SIZE)}
                /\ last' = [kind |-> "map", cpu |-> c, vs |-> k.vs, va |-> start_va,
                            paddr |-> FramePaddr(f), prop |-> prop, log |-> log]
    /\ UNCHANGED <<cpus, rw, activated, root, pc>>

\* Lines 326-336.  The entry is encoded by new_page, which panics in set_prop on a
\* cache policy it does not support.
Map(c, k, f, prop) ==
    /\ Called
    /\ pc[c].op = "idle"
    /\ k \in cursors
    /\ k.cpu = c
    /\ k.mut
    /\ k.va < k.hi
    /\ IF SetPropPanics(prop)
       THEN /\ last' = [kind |-> "panic", op |-> "map", what |-> "unsupported cache policy"]
            /\ UNCHANGED <<pt, cursors>>
       ELSE LET start_va == k.va
                m == PtMap(pt[k.vs], start_va, FramePaddr(f), prop)
                log == IF m.old # 0
                       THEN DispatchTlbFlush(<<EvTake(start_va, m.old),
                                               EvIssue(OpAddress(start_va), start_va, m.old)>>)
                       ELSE <<>>
            IN  /\ pt' = [pt EXCEPT ![k.vs] = m.pt]
                /\ cursors' = (cursors \ {k}) \cup {Moved(k, start_va + PAGE_SIZE)}
                /\ last' = [kind |-> "map", cpu |-> c, vs |-> k.vs, va |-> start_va,
                            paddr |-> FramePaddr(f), prop |-> prop, log |-> log]
    /\ UNCHANGED <<cpus, rw, activated, root, pc>>

\* A faulty loop: it stops after the first mapping it took.
UnmapLoopOnce(table, va, end_va, log, dropNow) ==
    LET t == TakeNext(table, va, end_va - va)
    IN  IF t.item.kind = "NotMapped"
        THEN [pt |-> t.pt, log |-> log]
        ELSE [pt |-> t.pt,
              log |-> log \o <<EvTake(t.item.va, t.item.paddr),
                                IF dropNow
                                THEN EvDrop(t.item.va, t.item.paddr)
                                ELSE EvIssue(OpAddress(t.item.va), t.item.va, t.item.paddr)>>]

\* The loop of lines 359-379: take the next mapping up to end_va; either drop the
\* frame at once (dropNow) or hand it to the flusher with a single-address flush.
RECURSIVE UnmapLoop(_, _, _, _, _)
UnmapLoop(table, va, end_va, log, dropNow) ==
    LET t == TakeNext(table, va, end_va - va)
    IN  IF t.item.kind = "NotMapped"
        THEN [pt |-> t.pt, log |-> log]
        ELSE UnmapLoop(t.pt, t.va, end_va,
                       log \o <<EvTake(t.item.va, t.item.paddr),
                                IF dropNow
                                THEN EvDrop(t.item.va, t.item.paddr)
                                ELSE EvIssue(OpAddress(t.item.va), t.item.va, t.item.paddr)>>,
                       dropNow)

\* A faulty unmap: the frames dropped in the loop get no flush-all.
UnmapFinishNoFlushAll(log, dropNow) == DispatchTlbFlush(log)

\* Lines 381-385: one flush-all for the frames dropped in the loop, then the dispatch.
UnmapFinish(log, dropNow) ==
    DispatchTlbFlush(IF dropNow THEN log \o <<EvIssue(OpAll, 0, 0)>> ELSE log)

\* A faulty unmap: the range is unmapped in every page table, as if the tables
\* shared the nodes that hold the entries.
UnmapEverywhere(c, k, len) ==
    /\ Called
    /\ pc[c].op = "idle"
    /\ k \in cursors
    /\ k.cpu = c
    /\ k.mut
    /\ len % PAGE_SIZE = 0
    /\ k.va + len <= k.hi
    /\ LET end_va == k.va + len
           tlb_prefer_flush_all == len > FLUSH_ALL_RANGE_THRESHOLD
           dropNow == ~NeedRemoteFlush(k) /\ tlb_prefer_flush_all
           u == UnmapLoop(pt[k.vs], k.va, end_va, <<>>, dropNow)
           log == UnmapFinish(u.log, dropNow)
       IN  /\ pt' = [ws \in VmSpaces |->
                        UnmapLoop(pt[ws], k.va, end_va, <<>>, dropNow).pt]
           /\ cursors' = (cursors \ {k}) \cup {Moved(k, end_va)}
           /\ last' = [kind |-> "unmap", cpu |-> c, vs |-> k.vs, va |-> k.va, len |-> len,
                       prefer_all |-> tlb_prefer_flush_all,
                       need_remote |-> NeedRemoteFlush(k), log |-> log]
    /\ UNCHANGED <<cpus, rw, activated, root, pc>>

\* A faulty unmap: a range without any mapping is taken for an error.
UnmapStrict(c, k, len) ==
    /\ Called
    /\ pc[c].op = "idle"
    /\ k \in cursors
    /\ k.cpu = c
    /\ k.mut
    /\ len % PAGE_SIZE = 0
    /\ k.va + len <= k.hi
    /\ LET end_va == k.va + len
           tlb_prefer_flush_all == len > FLUSH_ALL_RANGE_THRESHOLD
           dropNow == ~NeedRemoteFlush(k) /\ tlb_prefer_flush_all
           u == UnmapLoop(pt[k.vs], k.va, end_va, <<>>, dropNow)
           log == UnmapFinish(u.log, dropNow)
       IN  IF u.log = <<>>
           THEN /\ last' = [kind |-> "panic", op |-> "unmap", what |-> "nothing is mapped"]
                /\ UNCHANGED <<pt, cursors>>
           ELSE /\ pt' = [pt EXCEPT ![k.vs] = u.pt]
                /\ cursors' = (cursors \ {k}) \cup {Moved(k, end_va)}
                /\ last' = [kind |-> "unmap", cpu |-> c, vs |-> k.vs, va |-> k.va,
                            len |-> len, prefer_all |-> tlb_prefer_flush_all,
                            need_remote |-> NeedRemoteFlush(k), log |-> log]
    /\ UNCHANGED <<cpus, rw, activated, root, pc>>

\* Lines 354-386.  len is a multiple of the page size and stays in the cursor's range.
Unmap(c, k, len) ==
    /\ Called
    /\ pc[c].op = "idle"
    /\ k \in cursors
    /\ k.cpu = c
    /\ k.mut
    /\ len % PAGE_SIZE = 0
    /\ k.va + len <= k.hi
    /\ LET end_va == k.va + len
           tlb_prefer_flush_all == len > FLUSH_ALL_RANGE_THRESHOLD
           dropNow == ~NeedRemoteFlush(k) /\ tlb_prefer_flush_all
           u == UnmapLoop(pt[k.vs], k.va, end_va, <<>>, dropNow)
           log == UnmapFinish(u.log, dropNow)
       IN  /\ pt' = [pt EXCEPT ![k.vs] = u.pt]
           /\ cursors' = (cursors \ {k}) \cup {Moved(k, end_va)}
           /\ last' = [kind |-> "unmap", cpu |-> c, vs |-> k.vs, va |-> k.va, len |-> len,
                       prefer_all |-> tlb_prefer_flush_all,
                       need_remote |-> NeedRemoteFlush(k), log |-> log]
    /\ UNCHANGED <<cpus, rw, activated, root, pc>>

(***************************************************************************)
(* CursorMut::jump, protect_next and copy_from, on the CPU that owns the   *)
(* cursor.                                                                 *)
(***************************************************************************)
\* Lines 308-311: the cursor moves to va, or Err if va is not in its range.
Jump(c, k, va) ==
    /\ Inside
    /\ pc[c].op = "idle"
    /\ k \in cursors
    /\ k.cpu = c
    /\ IF JumpOk(k, va)
       THEN /\ cursors' = (cursors \ {k}) \cup {Moved(k, va)}
            /\ last' = NoEvent
       ELSE /\ cursors' = cursors
            /\ last' = [kind |-> "jump_err", va |-> va]
    /\ UNCHANGED <<pt, cpus, rw, activated, root, pc>>

\* A faulty protect_next: the flush of the protected page is issued and dispatched.
ProtectNextFlushing(c, k, len, op) ==
    /\ Called
    /\ pc[c].op = "idle"
    /\ k \in cursors
    /\ k.cpu = c
    /\ k.mut
    /\ len % PAGE_SIZE = 0
    /\ IF k.va + len > k.hi
       THEN /\ last' = [kind |-> "panic", op |-> "protect_next",
                        what |-> "out of the cursor range"]
            /\ UNCHANGED <<pt, cursors>>
       ELSE LET r == ProtectNextPt(pt[k.vs], k.va, len, op)
            IN  /\ pt' = [pt EXCEPT ![k.vs] = r.pt]
                /\ cursors' = (cursors \ {k}) \cup {Moved(k, r.va)}
                /\ last' = [kind |-> "protect", cpu |-> c, vs |-> k.vs, va |-> k.va,
                            len |-> len, op |-> op, range |-> r.range,
                            log |-> IF r.range = <<>>
                                    THEN <<>>
                                    ELSE DispatchTlbFlush(
                                             <<EvIssue(OpAddress(r.range[1]), r.range[1], 0)>>)]
    /\ UNCHANGED <<cpus, rw, activated, root, pc>>

\* Lines 411-418: the page-table cursor protects the next mapping; the flusher of the
\* cursor is not used.  The page-table cursor panics if the range leaves its own.
ProtectNext(c, k, len, op) ==
    /\ Called
    /\ pc[c].op = "idle"
    /\ k \in cursors
    /\ k.cpu = c
    /\ k.mut
    /\ len % PAGE_SIZE = 0
    /\ IF k.va + len > k.hi
       THEN /\ last' = [kind |-> "panic", op |-> "protect_next",
                        what |-> "out of the cursor range"]
            /\ UNCHANGED <<pt, cursors>>
       ELSE LET r == ProtectNextPt(pt[k.vs], k.va, len, op)
            IN  /\ pt' = [pt EXCEPT ![k.vs] = r.pt]
                /\ cursors' = (cursors \ {k}) \cup {Moved(k, r.va)}
                /\ last' = [kind |-> "protect", cpu |-> c, vs |-> k.vs, va |-> k.va,
                            len |-> len, op |-> op, range |-> r.range, log |-> <<>>]
    /\ UNCHANGED <<cpus, rw, activated, root, pc>>

\* A faulty check: mapped pages in the range of the destination go unnoticed.
DestinationMappedIgnored(k) == FALSE

\* copy_from panics if the range of the destination cursor contains mapped pages.
DestinationMapped(k) == PresentIn(pt[k.vs], k.lo, k.hi - k.lo) # {}

\* The result of copy_from: the tables of the source and of the destination (one
\* table if both cursors are of one VmSpace).
CopiedTables(k, src, len, op) ==
    LET protected == PtProtectRange(pt[src.vs], src.va, len, op)
        dst == IF k.vs = src.vs THEN protected ELSE pt[k.vs]
    IN  [pt EXCEPT ![src.vs] = protected,
                   ![k.vs] = PtDuplicate(dst, k.va, protected, src.va, len)]

\* A faulty copy_from: the two cursors are passed the wrong way round.
CopyFromReversed(c, k, src, len, op) ==
    /\ Called
    /\ pc[c].op = "idle"
    /\ k \in cursors
    /\ src \in cursors
    /\ k # src
    /\ k.cpu = c
    /\ src.cpu = c
    /\ k.mut
    /\ src.mut
    /\ len % PAGE_SIZE = 0
    /\ IF k.va + len > k.hi \/ src.va + len > src.hi
       THEN /\ last' = [kind |-> "panic", op |-> "copy_from", vs |-> src.vs,
                        what |-> "out of the cursor range"]
            /\ UNCHANGED <<pt, cursors>>
       ELSE IF DestinationMapped(src)
       THEN /\ last' = [kind |-> "panic", op |-> "copy_from", vs |-> src.vs,
                        what |-> "mapped pages in the range"]
            /\ UNCHANGED <<pt, cursors>>
       ELSE /\ pt' = CopiedTables(src, k, len, op)
            /\ cursors' = (cursors \ {k, src})
                               \cup {Moved(k, k.va + len), Moved(src, src.va + len)}
            /\ last' = [kind |-> "copy_from", cpu |-> c, vs |-> k.vs, va |-> k.va,
                        src_vs |-> src.vs, src_va |-> src.va, len |-> len, op |-> op,
                        log |-> <<>>]
    /\ UNCHANGED <<cpus, rw, activated, root, pc>>

\* Lines 441-450: self is the destination.  The page-table cursor panics if a range
\* leaves the range of its cursor or if the range of self contains a mapped page.
CopyFrom(c, k, src, len, op) ==
    /\ Called
    /\ pc[c].op = "idle"
    /\ k \in cursors
    /\ src \in cursors
    /\ k # src
    /\ k.cpu = c
    /\ src.cpu = c
    /\ k.mut
    /\ src.mut
    /\ len % PAGE_SIZE = 0
    /\ IF k.va + len > k.hi \/ src.va + len > src.hi
       THEN /\ last' = [kind |-> "panic", op |-> "copy_from", vs |-> k.vs,
                        what |-> "out of the cursor range"]
            /\ UNCHANGED <<pt, cursors>>
       ELSE IF DestinationMapped(k)
       THEN /\ last' = [kind |-> "panic", op |-> "copy_from", vs |-> k.vs,
                        what |-> "mapped pages in the range"]
            /\ UNCHANGED <<pt, cursors>>
       ELSE /\ pt' = CopiedTables(k, src, len, op)
            /\ cursors' = (cursors \ {k, src})
                               \cup {Moved(k, k.va + len), Moved(src, src.va + len)}
            /\ last' = [kind |-> "copy_from", cpu |-> c, vs |-> k.vs, va |-> k.va,
                        src_vs |-> src.vs, src_va |-> src.va, len |-> len, op |-> op,
                        log |-> <<>>]
    /\ UNCHANGED <<cpus, rw, activated, root, pc>>

(***************************************************************************)
(* VmSpace::reader and VmSpace::writer, on CPU c.                          *)
(***************************************************************************)
\* The largest value of the machine word of the model.
USIZE_MAX == 65535

\* A faulty sum: it wraps around the machine word.
WrappingAdd(vaddr, len) == (vaddr + len) % (USIZE_MAX + 1)

\* vaddr.checked_add(len).unwrap_or(usize::MAX)
CheckedAddOrMax(vaddr, len) ==
    IF vaddr + len > USIZE_MAX THEN USIZE_MAX ELSE vaddr + len

\* A faulty check: the page table loaded on the CPU is not looked at.
AccessCheckOnAnyTable(c, vs, vaddr, len) ==
    IF CheckedAddOrMax(vaddr, len) > MAX_USERSPACE_VADDR THEN "AccessDenied" ELSE "Ok"

\* Lines 185-191 and 206-212: current_page_table_paddr() must be the root of this
\* VmSpace, and the end of the range must not be above the user address space.
AccessCheck(c, vs, vaddr, len) ==
    IF root[c] # vs
    THEN "AccessDenied"
    ELSE IF CheckedAddOrMax(vaddr, len) > MAX_USERSPACE_VADDR
         THEN "AccessDenied"
         ELSE "Ok"

\* Asking for a reader or a writer changes nothing, and is not counted as a call.
Reader(c, vs, vaddr, len) ==
    /\ Inside
    /\ pc[c].op = "idle"
    /\ last' = [kind |-> "reader", cpu |-> c, vs |-> vs, vaddr |-> vaddr, len |-> len,
                res |-> AccessCheck(c, vs, vaddr, len)]
    /\ UNCHANGED <<pt, cpus, rw, activated, root, cursors, pc>>

Writer(c, vs, vaddr, len) ==
    /\ Inside
    /\ pc[c].op = "idle"
    /\ last' = [kind |-> "writer", cpu |-> c, vs |-> vs, vaddr |-> vaddr, len |-> len,
                res |-> AccessCheck(c, vs, vaddr, len)]
    /\ UNCHANGED <<pt, cpus, rw, activated, root, cursors, pc>>

(***************************************************************************)
(* The page-fault handler of a VmSpace.  A handler is a function pointer;  *)
(* the first handler of the model returns Ok(()), every other one Err(()). *)
(***************************************************************************)
NHandlers == 2

Handlers == 1 .. NHandlers

HandlerResult(f) == IF f = 1 THEN "Ok" ELSE "Err"

\* &mut self: no cursor borrows the VmSpace, no CPU has it activated or is inside one
\* of its operations.
Exclusive(vs) ==
    /\ CursorsOf(vs) = {}
    /\ \A d \in CpuIds : activated[d] # vs /\ (pc[d].op # "idle" => pc[d].vs # vs)

\* A faulty registration: a handler already registered stays.
RegisterFirstOnly(c, vs, func) ==
    /\ Budget
    /\ pc[c].op = "idle"
    /\ Exclusive(vs)
    /\ page_fault_handler' =
          IF page_fault_handler[vs] = NULL
          THEN [page_fault_handler EXCEPT ![vs] = func]
          ELSE page_fault_handler
    /\ last' = [kind |-> "register", cpu |-> c, vs |-> vs, func |-> func]
    /\ UNCHANGED <<vmVars, frameVars, levelVars, upper_half, platformVars>>

\* Lines 173-178: self.page_fault_handler = Some(func).
RegisterPageFaultHandler(c, vs, func) ==
    /\ Budget
    /\ pc[c].op = "idle"
    /\ Exclusive(vs)
    /\ page_fault_handler' = [page_fault_handler EXCEPT ![vs] = func]
    /\ last' = [kind |-> "register", cpu |-> c, vs |-> vs, func |-> func]
    /\ UNCHANGED <<vmVars, frameVars, levelVars, upper_half, platformVars>>

\* Lines 162-170: the handler, if there is one, is called and its result returned;
\* the event lists the handlers that were invoked.
HandlePageFault(c, vs) ==
    /\ Called
    /\ pc[c].op = "idle"
    /\ last' = IF page_fault_handler[vs] # NULL
               THEN [kind |-> "page_fault", cpu |-> c, vs |-> vs,
                     invoked |-> <<page_fault_handler[vs]>>,
                     res |-> HandlerResult(page_fault_handler[vs])]
               ELSE [kind |-> "page_fault", cpu |-> c, vs |-> vs,
                     invoked |-> <<>>, res |-> "Err"]
    /\ UNCHANGED vmVars

(***************************************************************************)
(* Frames: allocation, and the clone and drop of handles.  A handle is     *)
(* held by a caller or, once the frame is mapped, by the page table.       *)
(***************************************************************************)
\* The largest reference count of the model.
MaxRefs == 3

LiveHandles(f) == handles[f].held + handles[f].mapped

MemAvailable == Cardinality(free_frames) * PAGE_SIZE

\* A step on frames: it is not counted as a call of the address space.
FrameStep ==
    ~Panicked /\ UNCHANGED <<vmVars, calls, page_fault_handler, levelVars, upper_half,
                              platformVars>>

\* alloc_frame(): the free frame of the lowest address is handed out with one handle,
\* or OutOfMemory when there is none.
AllocFrame ==
    /\ FrameStep
    /\ IF free_frames = {}
       THEN /\ last' = [kind |-> "alloc_frame", res |-> "OutOfMemory", frame |-> 0]
            /\ UNCHANGED frameVars
       ELSE LET f == CHOOSE g \in free_frames : \A h \in free_frames : g <= h
            IN  /\ free_frames' = free_frames \ {f}
                /\ ref_count' = [ref_count EXCEPT ![f] = 1]
                /\ handles' = [handles EXCEPT ![f].held = 1]
                /\ last' = [kind |-> "alloc_frame", res |-> "Ok", frame |-> f]

\* A faulty clone: the reference count is left as it is.
CloneFrameUncounted(f) ==
    /\ FrameStep
    /\ handles[f].held > 0
    /\ LiveHandles(f) < MaxRefs
    /\ handles' = [handles EXCEPT ![f].held = @ + 1]
    /\ last' = [kind |-> "clone_frame", res |-> "Ok", frame |-> f]
    /\ UNCHANGED <<ref_count, free_frames>>

\* Frame::clone(), of a handle a caller holds.
CloneFrame(f) ==
    /\ FrameStep
    /\ handles[f].held > 0
    /\ LiveHandles(f) < MaxRefs
    /\ ref_count' = [ref_count EXCEPT ![f] = @ + 1]
    /\ handles' = [handles EXCEPT ![f].held = @ + 1]
    /\ last' = [kind |-> "clone_frame", res |-> "Ok", frame |-> f]
    /\ UNCHANGED free_frames

\* A faulty drop: the frame goes back to the allocator at every drop.
DropFrameFreeing(f) ==
    /\ FrameStep
    /\ handles[f].held > 0
    /\ ref_count' = [ref_count EXCEPT ![f] = @ - 1]
    /\ handles' = [handles EXCEPT ![f].held = @ - 1]
    /\ free_frames' = free_frames \cup {f}
    /\ last' = [kind |-> "drop_frame", res |-> "Ok", frame |-> f]

\* Frame::drop(), of a handle a caller holds: the drop of the last handle gives the
\* frame back to the allocator.
DropFrame(f) ==
    /\ FrameStep
    /\ handles[f].held > 0
    /\ ref_count' = [ref_count EXCEPT ![f] = @ - 1]
    /\ handles' = [handles EXCEPT ![f].held = @ - 1]
    /\ free_frames' = IF ref_count[f] = 1 THEN free_frames \cup {f} ELSE free_frames
    /\ last' = [kind |-> "drop_frame", res |-> "Ok", frame |-> f]

\* map(frame, prop) takes the handle of the caller into the page table.
MapFrame(f) ==
    /\ FrameStep
    /\ handles[f].held > 0
    /\ handles' = [handles EXCEPT ![f].held = @ - 1, ![f].mapped = @ + 1]
    /\ last' = [kind |-> "map_frame", res |-> "Ok", frame |-> f]
    /\ UNCHANGED <<ref_count, free_frames>>

\* take_next() gives the handle of the page table back to the caller.
UnmapFrame(f) ==
    /\ FrameStep
    /\ handles[f].mapped > 0
    /\ handles' = [handles EXCEPT ![f].held = @ + 1, ![f].mapped = @ - 1]
    /\ last' = [kind |-> "unmap_frame", res |-> "Ok", frame |-> f]
    /\ UNCHANGED <<ref_count, free_frames>>

(***************************************************************************)
(* A page table with pages of several sizes, and its cursor.  A node of    *)
(* the model has two entries, so that a page of level 2 spans two base     *)
(* pages and a page of level 3 spans four; the table spans one page of the *)
(* highest level.  A leaf is the base address, the level and the frame.    *)
(***************************************************************************)
HIGHEST_TRANSLATION_LEVEL == 3

PageSizeAt(level) == PAGE_SIZE * NR_ENTRIES ^ (level - 1)

LevelSpaceEnd == PageSizeAt(HIGHEST_TRANSLATION_LEVEL)

LeafEnd(leaf) == leaf.va + PageSizeAt(leaf.level)

\* query(va): the leaf that spans va, if there is one.
LeafQuery(table, va) ==
    LET spanning == {leaf \in table : leaf.va <= va /\ va < LeafEnd(leaf)}
    IN  IF spanning = {}
        THEN [kind |-> "NotMapped", va |-> va, paddr |-> 0, level |-> 0]
        ELSE LET leaf == CHOOSE l \in spanning : TRUE
             IN  [kind |-> "Mapped", va |-> leaf.va, paddr |-> leaf.paddr,
                  level |-> leaf.level]

\* A faulty choice: always the base page.
MapLevelBase(va, hi) == 1

\* The level map() installs the leaf at: the largest page size that is aligned at va
\* and fits in what remains of the range of the cursor.
MapLevel(va, hi) ==
    LET fits == {l \in 1 .. HIGHEST_TRANSLATION_LEVEL :
                    va % PageSizeAt(l) = 0 /\ va + PageSizeAt(l) <= hi}
    IN  CHOOSE l \in fits : \A m \in fits : m <= l

\* A step on this page table: it is not counted as a call of the address space.
LevelStep ==
    ~Panicked /\ UNCHANGED <<vmVars, calls, page_fault_handler, frameVars, upper_half,
                              platformVars, pt_cursor>>

\* cursor_mut(&(lo..hi)), with the range check of cursor creation.
LeafCursorMut(lo, hi) ==
    /\ LevelStep
    /\ ~leaf_cursor.alive
    /\ IF lo < hi /\ lo % PAGE_SIZE = 0 /\ hi % PAGE_SIZE = 0 /\ hi <= LevelSpaceEnd
       THEN /\ leaf_cursor' = [alive |-> TRUE, lo |-> lo, hi |-> hi, va |-> lo]
            /\ last' = [kind |-> "leaf_cursor", res |-> "Ok", lo |-> lo, hi |-> hi]
       ELSE /\ last' = [kind |-> "leaf_cursor", res |-> "InvalidArgs", lo |-> lo, hi |-> hi]
            /\ UNCHANGED leaf_cursor
    /\ UNCHANGED leaves

\* map(frame, prop): the leaf is installed in place of the smaller leaves it spans,
\* and the cursor moves past it.
LeafMap(f) ==
    /\ LevelStep
    /\ leaf_cursor.alive
    /\ leaf_cursor.va < leaf_cursor.hi
    /\ LET va == leaf_cursor.va
           level == MapLevel(va, leaf_cursor.hi)
           end == va + PageSizeAt(level)
           spanned == {leaf \in leaves : leaf.va < end /\ va < LeafEnd(leaf)}
       IN  /\ \A leaf \in spanned : va <= leaf.va /\ LeafEnd(leaf) <= end
           /\ leaves' = (leaves \ spanned)
                           \cup {[va |-> va, level |-> level, paddr |-> FramePaddr(f)]}
           /\ leaf_cursor' = [leaf_cursor EXCEPT !.va = end]
           /\ last' = [kind |-> "leaf_map", lo |-> leaf_cursor.lo, hi |-> leaf_cursor.hi,
                       va |-> va, level |-> level, paddr |-> FramePaddr(f)]

\* The cursor is dropped.
LeafCursorDrop ==
    /\ LevelStep
    /\ leaf_cursor.alive
    /\ leaf_cursor' = NoCursor
    /\ last' = [kind |-> "leaf_cursor_drop"]
    /\ UNCHANGED leaves

(***************************************************************************)
(* VmSpace::new, on CPU c, in the memory of a VmSpace that does not exist. *)
(***************************************************************************)
Created(vs) == vs \in DOMAIN upper_half

\* create_user_page_table(): a new root table with the upper-half entries of the
\* kernel page table and no entry in the lower half.
CreateUserPageTable(kernel) == [user |-> EmptyTable, upper |-> kernel]

\* A faulty creation: the upper half of the new root table is empty.
NewUnshared(c, vs) ==
    /\ Budget
    /\ pc[c].op = "idle"
    /\ ~Created(vs)
    /\ pt' = [pt EXCEPT ![vs] = EmptyTable]
    /\ upper_half' = [t \in DOMAIN upper_half \cup {vs} |->
                        IF t = vs
                        THEN [i \in UpperIdx |-> [paddr |-> 0, node |-> FALSE]]
                        ELSE upper_half[t]]
    /\ page_fault_handler' = [page_fault_handler EXCEPT ![vs] = NULL]
    /\ rw' = [rw EXCEPT ![vs] = RwUnlocked]
    /\ cpus' = [cpus EXCEPT ![vs] = {}]
    /\ last' = [kind |-> "new", cpu |-> c, vs |-> vs]
    /\ UNCHANGED <<activated, root, cursors, pc, raw_refs, frameVars, levelVars,
                   platformVars>>

\* Lines 60-67.
New(c, vs) ==
    /\ Budget
    /\ pc[c].op = "idle"
    /\ ~Created(vs)
    /\ LET table == CreateUserPageTable(upper_half[NULL])
       IN  /\ pt' = [pt EXCEPT ![vs] = table.user]
           /\ upper_half' = [t \in DOMAIN upper_half \cup {vs} |->
                               IF t = vs THEN table.upper ELSE upper_half[t]]
    /\ page_fault_handler' = [page_fault_handler EXCEPT ![vs] = NULL]
    /\ rw' = [rw EXCEPT ![vs] = RwUnlocked]
    /\ cpus' = [cpus EXCEPT ![vs] = {}]
    /\ last' = [kind |-> "new", cpu |-> c, vs |-> vs]
    /\ UNCHANGED <<activated, root, cursors, pc, raw_refs, frameVars, levelVars,
                   platformVars>>

(***************************************************************************)
(* The drop of a VmSpace, which drops its page table.                      *)
(***************************************************************************)
\* No cursor borrows the VmSpace and no CPU has it activated (ACTIVATED_VM_SPACE
\* holds a reference).  The entries of its table are gone with it.
DropPageTable(c, vs) ==
    /\ Called
    /\ pc[c].op = "idle"
    /\ CursorsOf(vs) = {}
    /\ \A d \in CpuIds : activated[d] # vs /\ (pc[d].op # "idle" => pc[d].vs # vs)
    /\ pt' = [pt EXCEPT ![vs] = EmptyTable]
    /\ last' = [kind |-> "drop_table", cpu |-> c, vs |-> vs]
    /\ UNCHANGED <<cpus, rw, activated, root, cursors, pc>>

(***************************************************************************)
(* The specification: every CPU calls the operations in any order.         *)
(***************************************************************************)
\* The ranges asked of cursor creation: every page-aligned range of the user space,
\* and ranges that are empty, misaligned or reach above the user space.
ValidRanges == {r \in (0 .. NPages) \X (0 .. NPages) : r[1] < r[2]}

RangeInputs ==
    {<<r[1] * PAGE_SIZE, r[2] * PAGE_SIZE>> : r \in ValidRanges}
    \cup {<<0, 0>>, <<0, PAGE_SIZE + 1>>, <<1, PAGE_SIZE + 1>>,
          <<MAX_USERSPACE_VADDR, MAX_USERSPACE_VADDR + PAGE_SIZE>>}

Lens == {n * PAGE_SIZE : n \in 1 .. NPages}

Props == {NewPageProperty({"R", "W"}, "Writeback")}

Next ==
    \E c \in CpuIds :
        \/ \E vs \in VmSpaces : Activate(c, vs)
        \/ ActivateLock(c)
        \/ ActivateAdd(c)
        \/ ActivateStore(c)
        \/ ActivateRemove(c)
        \/ ActivateSwitch(c)
        \/ \E vs \in VmSpaces : Clear(c, vs)
        \/ ClearLoad(c)
        \/ ClearDo(c)
        \/ \E vs \in VmSpaces, mut \in BOOLEAN, r \in RangeInputs :
              CursorCall(c, vs, mut, r[1], r[2])
        \/ CursorLock(c)
        \/ CursorMutRead(c)
        \/ CursorMutLoad(c)
        \/ \E k \in cursors : DropCursor(c, k)
        \/ \E k \in cursors, f \in FrameNos, prop \in Props : Map(c, k, f, prop)
        \/ \E k \in cursors, len \in Lens : Unmap(c, k, len)

Spec == Init /\ [][Next]_vars

(***************************************************************************)
(* The specification of mapping with every page property: a mutable cursor *)
(* is created over any range and maps one frame with any property.         *)
(***************************************************************************)
NextRT ==
    \E c \in CpuIds :
        \/ /\ cursors = {}
           /\ Creating = {}
           /\ \E vs \in VmSpaces, r \in RangeInputs : CursorCall(c, vs, TRUE, r[1], r[2])
        \/ CursorLock(c)
        \/ CursorMutRead(c)
        \/ CursorMutLoad(c)
        \/ /\ last.kind # "map"
           /\ \E k \in cursors, f \in FrameNos, prop \in PageProperties : Map(c, k, f, prop)

SpecRT == Init /\ [][NextRT]_vars

(***************************************************************************)
(* The specification of the operations of live cursors.  One CPU holds a   *)
(* mutable cursor over the whole user address space of each of the first   *)
(* two VmSpaces (a parent and a child, as in test user_copy_on_write); any *)
(* of the pages of the first has been mapped read-write.  No VmSpace is    *)
(* activated.                                                              *)
(***************************************************************************)
PtSpaces == {1, 2}

\* The tables that map the first frame read-write at some pages.
PartlyMappedTables ==
    {[p \in PageNos |-> IF p \in ps THEN MappedTable[p] ELSE PteAbsent] : ps \in SUBSET PageNos}

WholeRangeCursor(vs) == NewCursor(0, vs, TRUE, 0, MAX_USERSPACE_VADDR, {})

InitPT ==
    /\ pt \in {[vs \in VmSpaces |-> IF vs = 1 THEN t ELSE EmptyTable] : t \in PartlyMappedTables}
    /\ cpus = [vs \in VmSpaces |-> {}]
    /\ rw = [vs \in VmSpaces |-> IF vs \in PtSpaces
                                  THEN [readers |-> 1, writer |-> FALSE]
                                  ELSE RwUnlocked]
    /\ activated = [c \in CpuIds |-> NULL]
    /\ root = [c \in CpuIds |-> NULL]
    /\ cursors = {WholeRangeCursor(vs) : vs \in PtSpaces}
    /\ pc = [c \in CpuIds |-> Idle]
    /\ calls = 0
    /\ last = NoEvent
    /\ RestInit

JumpTargets == {p * PAGE_SIZE : p \in 0 .. NPages}

NextPT ==
    \E c \in CpuIds :
        \/ \E k \in cursors, va \in JumpTargets : Jump(c, k, va)
        \/ \E k \in cursors, f \in FrameNos, prop \in Props : Map(c, k, f, prop)
        \/ \E k \in cursors, len \in Lens : Unmap(c, k, len)
        \/ \E k \in cursors, len \in Lens, op \in PropOps : ProtectNext(c, k, len, op)
        \/ \E k \in cursors, src \in cursors, len \in Lens, op \in PropOps :
              CopyFrom(c, k, src, len, op)

SpecPT == InitPT /\ [][NextPT]_vars

(***************************************************************************)
(* The specification of page tables related by copy_from: the parent is    *)
(* copied into the child, mappings are added and removed in either, the    *)
(* cursors are dropped and a page table is dropped.                        *)
(***************************************************************************)
NextCow ==
    \E c \in CpuIds :
        \/ \E k \in cursors, src \in cursors, len \in Lens, op \in PropOps :
              CopyFrom(c, k, src, len, op)
        \/ \E k \in cursors, f \in FrameNos, prop \in Props : Map(c, k, f, prop)
        \/ \E k \in cursors, len \in Lens : Unmap(c, k, len)
        \/ \E k \in cursors : DropCursor(c, k)
        \/ \E vs \in VmSpaces : DropPageTable(c, vs)

SpecCow == InitPT /\ [][NextCow]_vars

(***************************************************************************)
(* The specification of user-space access: VmSpaces are activated on the   *)
(* CPUs in any order, and readers and writers are asked of any VmSpace for  *)
(* ranges inside the user address space, above it, and past the end of the *)
(* machine word.                                                           *)
(***************************************************************************)
AccessVaddrs == {0, PAGE_SIZE, MAX_USERSPACE_VADDR, USIZE_MAX - PAGE_SIZE + 1}

AccessLens == {0, PAGE_SIZE, MAX_USERSPACE_VADDR, MAX_USERSPACE_VADDR + 1, USIZE_MAX}

NextRW ==
    \E c \in CpuIds :
        \/ \E vs \in VmSpaces : Activate(c, vs)
        \/ ActivateLock(c)
        \/ ActivateAdd(c)
        \/ ActivateStore(c)
        \/ ActivateRemove(c)
        \/ ActivateSwitch(c)
        \/ \E vs \in VmSpaces, vaddr \in AccessVaddrs, len \in AccessLens :
              Reader(c, vs, vaddr, len)
        \/ \E vs \in VmSpaces, vaddr \in AccessVaddrs, len \in AccessLens :
              Writer(c, vs, vaddr, len)

SpecRW == Init /\ [][NextRW]_vars

(***************************************************************************)
(* The specification of page-fault handling: VmSpaces that have any        *)
(* handler or none are activated, are given handlers and handle faults.    *)
(***************************************************************************)
InitPF ==
    /\ pt = [vs \in VmSpaces |-> EmptyTable]
    /\ cpus = [vs \in VmSpaces |-> {}]
    /\ rw = [vs \in VmSpaces |-> RwUnlocked]
    /\ activated = [c \in CpuIds |-> NULL]
    /\ root = [c \in CpuIds |-> NULL]
    /\ cursors = {}
    /\ pc = [c \in CpuIds |-> Idle]
    /\ calls = 0
    /\ last = NoEvent
    /\ page_fault_handler \in [VmSpaces -> {NULL} \cup Handlers]
    /\ FramesInit
    /\ LevelsInit
    /\ upper_half = [t \in {NULL} \cup VmSpaces |-> BootUpperHalf]
    /\ PlatformInit

NextPF ==
    \E c \in CpuIds :
        \/ \E vs \in VmSpaces : Activate(c, vs)
        \/ ActivateLock(c)
        \/ ActivateAdd(c)
        \/ ActivateStore(c)
        \/ ActivateRemove(c)
        \/ ActivateSwitch(c)
        \/ \E vs \in VmSpaces, func \in Handlers : RegisterPageFaultHandler(c, vs, func)
        \/ \E vs \in VmSpaces : HandlePageFault(c, vs)

SpecPF == InitPF /\ [][NextPF]_vars

(***************************************************************************)
(* The specification of frames: frames are allocated, their handles are    *)
(* cloned, mapped, unmapped and dropped, in any order.                     *)
(***************************************************************************)
InitFrame ==
    /\ pt = [vs \in VmSpaces |-> EmptyTable]
    /\ cpus = [vs \in VmSpaces |-> {}]
    /\ rw = [vs \in VmSpaces |-> RwUnlocked]
    /\ activated = [c \in CpuIds |-> NULL]
    /\ root = [c \in CpuIds |-> NULL]
    /\ cursors = {}
    /\ pc = [c \in CpuIds |-> Idle]
    /\ calls = 0
    /\ last = NoEvent
    /\ RestInit

NextFrame ==
    \/ AllocFrame
    \/ \E f \in FrameNos : CloneFrame(f)
    \/ \E f \in FrameNos : DropFrame(f)
    \/ \E f \in FrameNos : MapFrame(f)
    \/ \E f \in FrameNos : UnmapFrame(f)

SpecFrame == InitFrame /\ [][NextFrame]_vars

(***************************************************************************)
(* The specification of pages of several sizes: cursors are created over   *)
(* any range of the table, valid or not, and map frames one after another. *)
(***************************************************************************)
LevelRanges ==
    {<<lo * PAGE_SIZE, hi * PAGE_SIZE>> :
        lo \in 0 .. LevelSpaceEnd \div PAGE_SIZE, hi \in 0 .. LevelSpaceEnd \div PAGE_SIZE + 1}

NextLevel ==
    \/ \E r \in LevelRanges : LeafCursorMut(r[1], r[2])
    \/ \E f \in FrameNos : LeafMap(f)
    \/ LeafCursorDrop

SpecLevel == InitFrame /\ [][NextLevel]_vars

(***************************************************************************)
(* The specification of VmSpace creation.  The first VmSpace exists, with  *)
(* a mutable cursor over its user address space and any of its pages       *)
(* mapped; the others are created in memory that is zeroed or holds what a *)
(* VmSpace in use left there.  The nodes the upper half of the kernel page *)
(* table points to are any of the nodes of the kernel.                     *)
(***************************************************************************)
KernelUpperHalves ==
    [UpperIdx -> {[paddr |-> FramePaddr(NFrames + n), node |-> TRUE] : n \in 1 .. 2}]

InitNew ==
    /\ \E used \in BOOLEAN :
          /\ pt \in {[vs \in VmSpaces |-> IF vs = 1 THEN t
                                           ELSE IF used THEN MappedTable ELSE EmptyTable] :
                        t \in PartlyMappedTables}
          /\ cpus = [vs \in VmSpaces |-> IF vs # 1 /\ used THEN CpuIds ELSE {}]
          /\ page_fault_handler = [vs \in VmSpaces |-> IF vs # 1 /\ used THEN 1 ELSE NULL]
    /\ rw = [vs \in VmSpaces |-> IF vs = 1 THEN [readers |-> 1, writer |-> FALSE]
                                  ELSE RwUnlocked]
    /\ activated = [c \in CpuIds |-> NULL]
    /\ root = [c \in CpuIds |-> NULL]
    /\ cursors = {WholeRangeCursor(1)}
    /\ pc = [c \in CpuIds |-> Idle]
    /\ calls = 0
    /\ last = NoEvent
    /\ FramesInit
    /\ LevelsInit
    /\ upper_half \in {[t \in {NULL, 1} |-> u] : u \in KernelUpperHalves}
    /\ PlatformInit

NextNew ==
    \E c \in CpuIds :
        \/ \E vs \in VmSpaces : New(c, vs)
        \/ /\ Creating = {}
           /\ \E vs \in VmSpaces, r \in RangeInputs :
                 Created(vs) /\ CursorCall(c, vs, TRUE, r[1], r[2])
        \/ CursorLock(c)
        \/ CursorMutRead(c)
        \/ CursorMutLoad(c)
        \/ \E k \in cursors : DropCursor(c, k)
        \/ \E k \in cursors, f \in FrameNos, prop \in Props : Map(c, k, f, prop)
        \/ \E k \in cursors, len \in Lens : Unmap(c, k, len)
        \/ \E vs \in VmSpaces : Created(vs) /\ Clear(c, vs)
        \/ ClearLoad(c)
        \/ ClearDo(c)

SpecNew == InitNew /\ [][NextNew]_vars

(***************************************************************************)
(* Inter-processor calls.  inter_processor_call queues f on every other    *)
(* target, sends each of them the interrupt, and runs f itself if the      *)
(* calling CPU is a target.  The handler of the interrupt runs, on its     *)
(* CPU, every function it finds in the queue of that CPU.  Local           *)
(* interrupts are disabled from the entry of either function to its        *)
(* return.  An entry of a queue carries, next to the function, the call    *)
(* that queued it, so that an execution can be told from another.          *)
(***************************************************************************)
\* The largest number of calls of inter_processor_call.
MaxIpcCalls == 2

IpcFns == {"f", "g"}

\* A step of inter-processor calls leaves the rest of the state alone.
SmpStep ==
    UNCHANGED <<vmVars, calls, last, page_fault_handler, frameVars, levelVars,
                upper_half, PAGE_STATES, PHYSICAL_MEM>>

\* The guard of trap::disable_local() is held on the CPU.
IrqsDisabled(c) == ipc_pc[c].op # "idle"

\* The handler holds the lock of the queue of its CPU from its entry to its return.
QueueLocked(c) == ipc_pc[c].op = "irq"

\* The next element of targets.iter(): CPUs are iterated in the order of their ids.
FirstOf(todo) == CHOOSE c \in todo : \A d \in todo : c <= d

\* The position after a step of a loop: a loop that has no element left is over,
\* the second loop starts over the same targets, and the call on self follows.
LoopEnd(r, targets) ==
    LET a == IF r.op = "push" /\ r.todo = {}
             THEN [r EXCEPT !.op = "send", !.todo = targets] ELSE r
    IN  IF a.op = "send" /\ a.todo = {} THEN [a EXCEPT !.op = "self"] ELSE a

\* send_ipi(cpu_id, irq_num): the interrupt becomes pending on the CPU.  An interrupt
\* that is pending already stays pending once.
SendIpi(pending, cpu_id) == [pending EXCEPT ![cpu_id] = TRUE]

\* inter_processor_call(targets, f), up to the first loop.
InterProcessorCall(c, targets, f) ==
    /\ SmpStep
    /\ ~IrqsDisabled(c)
    /\ Len(ipc_calls) < MaxIpcCalls
    /\ ipc_calls' = Append(ipc_calls,
                           [cpu |-> c, targets |-> targets, f |-> f, returned |-> FALSE])
    /\ ipc_pc' = [ipc_pc EXCEPT ![c] =
                     LoopEnd([op |-> "push", id |-> Len(ipc_calls) + 1, todo |-> targets,
                              call_on_self |-> FALSE], targets)]
    /\ UNCHANGED <<CALL_QUEUES, ipi_pending, ran>>

\* An inter_processor_call that queues f on the calling CPU as on any other.
IpcPushEvery(c) ==
    /\ SmpStep
    /\ ipc_pc[c].op = "push"
    /\ LET r == ipc_pc[c]
           call == ipc_calls[r.id]
           cpu_id == FirstOf(r.todo)
       IN  /\ ~QueueLocked(cpu_id)
           /\ CALL_QUEUES' = [CALL_QUEUES EXCEPT
                                 ![cpu_id] = Append(@, [f |-> call.f, id |-> r.id])]
           /\ ipc_pc' = [ipc_pc EXCEPT
                            ![c] = LoopEnd([r EXCEPT !.todo = @ \ {cpu_id}], call.targets)]
    /\ UNCHANGED <<ipi_pending, ipc_calls, ran>>

\* An iteration of the first loop: f is pushed to the queue of the target, under the
\* lock of the queue, unless the target is the calling CPU.
IpcPush(c) ==
    /\ SmpStep
    /\ ipc_pc[c].op = "push"
    /\ LET r == ipc_pc[c]
           call == ipc_calls[r.id]
           cpu_id == FirstOf(r.todo)
       IN  IF cpu_id = c
           THEN /\ ipc_pc' = [ipc_pc EXCEPT
                                 ![c] = LoopEnd([r EXCEPT !.todo = @ \ {cpu_id},
                                                          !.call_on_self = TRUE],
                                                call.targets)]
                /\ UNCHANGED CALL_QUEUES
           ELSE /\ ~QueueLocked(cpu_id)
                /\ CALL_QUEUES' = [CALL_QUEUES EXCEPT
                                      ![cpu_id] = Append(@, [f |-> call.f, id |-> r.id])]
                /\ ipc_pc' = [ipc_pc EXCEPT
                                 ![c] = LoopEnd([r EXCEPT !.todo = @ \ {cpu_id}],
                                                call.targets)]
    /\ UNCHANGED <<ipi_pending, ipc_calls, ran>>

\* A faulty second loop: no interrupt is sent.
IpcSendNothing(c) ==
    /\ SmpStep
    /\ ipc_pc[c].op = "send"
    /\ LET r == ipc_pc[c]
           call == ipc_calls[r.id]
           cpu_id == FirstOf(r.todo)
       IN  ipc_pc' = [ipc_pc EXCEPT
                         ![c] = LoopEnd([r EXCEPT !.todo = @ \ {cpu_id}], call.targets)]
    /\ UNCHANGED <<CALL_QUEUES, ipi_pending, ipc_calls, ran>>

\* An iteration of the second loop: the interrupt is sent to the target, unless the
\* target is the calling CPU.
IpcSend(c) ==
    /\ SmpStep
    /\ ipc_pc[c].op = "send"
    /\ LET r == ipc_pc[c]
           call == ipc_calls[r.id]
           cpu_id == FirstOf(r.todo)
       IN  /\ ipi_pending' = IF cpu_id = c THEN ipi_pending
                             ELSE SendIpi(ipi_pending, cpu_id)
           /\ ipc_pc' = [ipc_pc EXCEPT
                            ![c] = LoopEnd([r EXCEPT !.todo = @ \ {cpu_id}], call.targets)]
    /\ UNCHANGED <<CALL_QUEUES, ipc_calls, ran>>

\* if call_on_self { f() }
IpcSelf(c) ==
    /\ SmpStep
    /\ ipc_pc[c].op = "self"
    /\ LET r == ipc_pc[c]
       IN  /\ ran' = IF r.call_on_self
                     THEN ran \cup {[id |-> r.id, cpu |-> c, f |-> ipc_calls[r.id].f,
                                     ctx |-> "sync"]}
                     ELSE ran
           /\ ipc_pc' = [ipc_pc EXCEPT ![c] = [r EXCEPT !.op = "ret"]]
    /\ UNCHANGED <<CALL_QUEUES, ipi_pending, ipc_calls>>

\* The return of inter_processor_call: the guard is dropped.
IpcReturn(c) ==
    /\ SmpStep
    /\ ipc_pc[c].op = "ret"
    /\ ipc_calls' = [ipc_calls EXCEPT ![ipc_pc[c].id].returned = TRUE]
    /\ ipc_pc' = [ipc_pc EXCEPT ![c] = SmpIdle]
    /\ UNCHANGED <<CALL_QUEUES, ipi_pending, ran>>

\* The interrupt is taken on a CPU whose interrupts are enabled, and
\* do_inter_processor_call locks the queue of the CPU.
DoInterProcessorCall(c) ==
    /\ SmpStep
    /\ ipi_pending[c]
    /\ ~IrqsDisabled(c)
    /\ ipi_pending' = [ipi_pending EXCEPT ![c] = FALSE]
    /\ ipc_pc' = [ipc_pc EXCEPT ![c] = [op |-> "irq"]]
    /\ UNCHANGED <<CALL_QUEUES, ipc_calls, ran>>

\* A faulty handler: it removes the entry at the back of the queue.
IrqPopBack(c) ==
    /\ SmpStep
    /\ ipc_pc[c].op = "irq"
    /\ CALL_QUEUES[c] # <<>>
    /\ LET q == CALL_QUEUES[c]
           e == q[Len(q)]
       IN  /\ ran' = ran \cup {[id |-> e.id, cpu |-> c, f |-> e.f, ctx |-> "irq"]}
           /\ CALL_QUEUES' = [CALL_QUEUES EXCEPT ![c] = SubSeq(q, 1, Len(q) - 1)]
    /\ UNCHANGED <<ipi_pending, ipc_pc, ipc_calls>>

\* while let Some(f) = queue.pop_front() { f() }
IrqPop(c) ==
    /\ SmpStep
    /\ ipc_pc[c].op = "irq"
    /\ CALL_QUEUES[c] # <<>>
    /\ LET e == Head(CALL_QUEUES[c])
       IN  ran' = ran \cup {[id |-> e.id, cpu |-> c, f |-> e.f, ctx |-> "irq"]}
    /\ CALL_QUEUES' = [CALL_QUEUES EXCEPT ![c] = Tail(@)]
    /\ UNCHANGED <<ipi_pending, ipc_pc, ipc_calls>>

\* The queue is empty: the handler unlocks it and returns.
IrqReturn(c) ==
    /\ SmpStep
    /\ ipc_pc[c].op = "irq"
    /\ CALL_QUEUES[c] = <<>>
    /\ ipc_pc' = [ipc_pc EXCEPT ![c] = SmpIdle]
    /\ UNCHANGED <<CALL_QUEUES, ipi_pending, ipc_calls, ran>>

(***************************************************************************)
(* The specification of inter-processor calls: any CPU calls any targets,  *)
(* with one function in the first call and another in the later ones.  A   *)
(* CPU that can take a step of the code it is in takes it, and a CPU whose *)
(* interrupts are enabled takes the interrupt that is pending.             *)
(***************************************************************************)
CpuRuns(c) ==
    \/ IpcPush(c)
    \/ IpcSend(c)
    \/ IpcSelf(c)
    \/ IpcReturn(c)
    \/ DoInterProcessorCall(c)
    \/ IrqPop(c)
    \/ IrqReturn(c)

NextIPC ==
    \E c \in CpuIds :
        \/ \E targets \in SUBSET CpuIds, f \in IpcFns :
              /\ (f = "f") = (ipc_calls = <<>>)
              /\ InterProcessorCall(c, targets, f)
        \/ IpcPush(c)
        \/ IpcSend(c)
        \/ IpcSelf(c)
        \/ IpcReturn(c)
        \/ DoInterProcessorCall(c)
        \/ IrqPop(c)
        \/ IrqReturn(c)

SpecIPC == InitFrame /\ [][NextIPC]_vars /\ \A c \in CpuIds : WF_vars(CpuRuns(c))

(***************************************************************************)
(* The states of the physical pages.  The kernel tells the interpreter of  *)
(* every allocation, retype and deallocation of pages; the interpreter     *)
(* keeps the state of each page in PAGE_STATES.  The interpreter runs one  *)
(* of these functions at a time, from its first line to its return.        *)
(***************************************************************************)
\* The largest number of pages of one request.
MaxCount == 2

TypedKinds == {"Slab", "PageTable"}

PageIndex(paddr) == paddr \div PAGE_SIZE

\* The pages of the request of count pages at paddr.
PagesOf(paddr, count) == PageIndex(paddr) .. (PageIndex(paddr) + count - 1)

\* A step on the states of pages leaves the rest of the state alone.
PhysStep ==
    UNCHANGED <<vmVars, calls, page_fault_handler, frameVars, levelVars, upper_half,
                smpVars, PHYSICAL_MEM>>

\* set_page_state(paddr, page_state)
SetPageState(states, paddr, page_state) ==
    [states EXCEPT ![PageIndex(paddr)] = page_state]

\* kern_miri_alloc_pages(paddr, count): the pages become Untyped; allocating a page
\* that is allocated already is undefined behaviour.
AllocPages(paddr, count) ==
    /\ PhysStep
    /\ LET ub == \E i \in PagesOf(paddr, count) : PAGE_STATES[i] # Unused
       IN  /\ PAGE_STATES' = IF ub THEN PAGE_STATES
                             ELSE [i \in PhysPages |->
                                      IF i \in PagesOf(paddr, count) THEN Untyped
                                      ELSE PAGE_STATES[i]]
           /\ last' = [kind |-> "alloc_pages", paddr |-> paddr, count |-> count,
                       ub |-> ub, ub_paddr |-> 0]

\* The loop of retype_pages_at, from page_index on.
RECURSIVE RetypeLoop(_, _, _, _, _)
RetypeLoop(states, paddr, count, page_type, page_index) ==
    IF page_index >= count THEN states
    ELSE LET page_paddr == paddr + PAGE_SIZE * page_index
         IN  RetypeLoop(SetPageState(states, page_paddr, Typed(page_type)),
                        paddr, count, page_type, page_index + 1)

\* retype_pages_at(this, paddr, count, type_size, page_type)
RetypePagesAt(paddr, count, page_type) ==
    /\ PhysStep
    /\ PAGE_STATES' = RetypeLoop(PAGE_STATES, paddr, count, page_type, 0)
    /\ last' = [kind |-> "retype", paddr |-> paddr, count |-> count, ub |-> FALSE,
                ub_paddr |-> 0]

\* The loop of free_allocations, from page_index on: the states it leaves, and the
\* undefined behaviour it throws, if any, with the address in the message.
RECURSIVE FreeLoop(_, _, _, _)
FreeLoop(states, paddr, count, page_index) ==
    IF page_index >= count THEN [states |-> states, ub |-> FALSE, ub_paddr |-> 0]
    ELSE LET page_paddr == paddr + PAGE_SIZE * page_index
         IN  IF states[PageIndex(paddr)] = Unused
             THEN [states |-> states, ub |-> TRUE, ub_paddr |-> page_paddr]
             ELSE FreeLoop(SetPageState(states, page_paddr, Unused),
                           paddr, count, page_index + 1)

\* free_allocations(this, paddr, count)
FreeAllocations(paddr, count) ==
    /\ PhysStep
    /\ LET out == FreeLoop(PAGE_STATES, paddr, count, 0)
       IN  /\ PAGE_STATES' = out.states
           /\ last' = [kind |-> "dealloc", paddr |-> paddr, count |-> count,
                       ub |-> out.ub, ub_paddr |-> out.ub_paddr]

(***************************************************************************)
(* The specification of page states: after init_miri_physical_mem, pages   *)
(* of any range inside the physical memory are allocated, retyped and      *)
(* deallocated in any order.                                               *)
(***************************************************************************)
PhysRequests ==
    {r \in (PhysPages \X (1 .. MaxCount)) : r[1] + r[2] <= TOTAL_PAGES}

NextPhys ==
    \E r \in PhysRequests :
        \/ AllocPages(r[1] * PAGE_SIZE, r[2])
        \/ \E page_type \in TypedKinds : RetypePagesAt(r[1] * PAGE_SIZE, r[2], page_type)
        \/ FreeAllocations(r[1] * PAGE_SIZE, r[2])

SpecPhys == InitFrame /\ [][NextPhys]_vars

(***************************************************************************)
(* The specification of the activation lock.  CPU 0 holds a mutable cursor *)
(* over the first page of the first VmSpace, which is activated there; the *)
(* CPUs create mutable cursors over single pages, drop them, activate and  *)
(* clear.  A CPU inside a call takes the next step of the call when it     *)
(* can: a CPU that spins on a lock tries again.  When a caller drops its   *)
(* cursor is up to the caller.                                             *)
(***************************************************************************)
FirstPageCursor == NewCursor(0, 1, TRUE, 0, PAGE_SIZE, {0})

InitLock ==
    /\ pt = [vs \in VmSpaces |-> IF vs = 1 THEN MappedTable ELSE EmptyTable]
    /\ cpus = [vs \in VmSpaces |-> IF vs = 1 THEN {0} ELSE {}]
    /\ rw = [vs \in VmSpaces |-> IF vs = 1 THEN [readers |-> 1, writer |-> FALSE]
                                  ELSE RwUnlocked]
    /\ activated = [c \in CpuIds |-> IF c = 0 THEN 1 ELSE NULL]
    /\ root = [c \in CpuIds |-> IF c = 0 THEN 1 ELSE NULL]
    /\ cursors = {FirstPageCursor}
    /\ pc = [c \in CpuIds |-> Idle]
    /\ calls = 0
    /\ last = NoEvent
    /\ RestInit

PageRanges == {<<p * PAGE_SIZE, (p + 1) * PAGE_SIZE>> : p \in PageNos}

\* The steps inside a call, on CPU c.
LockRuns(c) ==
    \/ ActivateLock(c)
    \/ ActivateAdd(c)
    \/ ActivateStore(c)
    \/ ActivateRemove(c)
    \/ ActivateSwitch(c)
    \/ ClearLoad(c)
    \/ ClearDo(c)
    \/ CursorLock(c)
    \/ CursorMutRead(c)
    \/ CursorMutLoad(c)

NextLock ==
    \E c \in CpuIds :
        \/ \E vs \in VmSpaces : Activate(c, vs)
        \/ ActivateLock(c)
        \/ ActivateAdd(c)
        \/ ActivateStore(c)
        \/ ActivateRemove(c)
        \/ ActivateSwitch(c)
        \/ \E vs \in VmSpaces : Clear(c, vs)
        \/ ClearLoad(c)
        \/ ClearDo(c)
        \/ \E vs \in VmSpaces, r \in PageRanges : CursorCall(c, vs, TRUE, r[1], r[2])
        \/ CursorLock(c)
        \/ CursorMutRead(c)
        \/ CursorMutLoad(c)
        \/ \E k \in cursors : DropCursor(c, k)

SpecLock == InitLock /\ [][NextLock]_vars /\ \A c \in CpuIds : WF_vars(LockRuns(c))

(***************************************************************************)
(* The cursors of a VmSpace over a page table whose slots hold items of    *)
(* any kind: nothing, a frame of untyped memory, a frame of typed memory,  *)
(* or memory that is not tracked.  The page-table cursor under them maps   *)
(* any of these; it is the caller that must map only untyped frames into   *)
(* a VmSpace.                                                              *)
(***************************************************************************)
ItemKinds == {"Untyped", "Typed", "Untracked"}

ItemsEnd == NPages * PAGE_SIZE

\* A step on these slots: it is not counted as a call of the address space.
ItemStep ==
    ~Panicked /\ UNCHANGED <<vmVars, calls, page_fault_handler, frameVars, leaves,
                              leaf_cursor, upper_half, platformVars>>

\* The page-table cursor maps an item in its slot and moves to the next slot.
ItemMap(kind) ==
    /\ ItemStep
    /\ pt_cursor.va < ItemsEnd
    /\ pt_cursor' = [items |-> [pt_cursor.items EXCEPT ![PageOf(pt_cursor.va)] = kind],
                     va |-> pt_cursor.va + PAGE_SIZE]
    /\ last' = [kind |-> "item_map", va |-> pt_cursor.va, item |-> kind]

\* jump(va)
ItemJump(va) ==
    /\ ItemStep
    /\ va < ItemsEnd
    /\ pt_cursor' = [pt_cursor EXCEPT !.va = va]
    /\ last' = [kind |-> "item_jump", va |-> va]

\* The PageTableItem of the slot at va.
PageTableQuery(items, va) ==
    LET kind == items[PageOf(va)]
    IN  CASE kind = "NotMapped" -> [kind |-> "NotMapped", va |-> va, typed |-> FALSE]
          [] kind = "Untracked" -> [kind |-> "MappedUntracked", va |-> va, typed |-> FALSE]
          [] OTHER -> [kind |-> "Mapped", va |-> va, typed |-> kind = "Typed"]

\* TryFrom<PageTableItem> for VmItem: a VmItem, or the error.
TryFromItem(item) ==
    CASE item.kind = "NotMapped" -> [ok |-> TRUE, item |-> "NotMapped", err |-> "none"]
      [] item.kind = "Mapped" ->
            IF item.typed
            THEN [ok |-> FALSE, item |-> "none", err |-> "found typed memory mapped into VmSpace"]
            ELSE [ok |-> TRUE, item |-> "Mapped", err |-> "none"]
      [] OTHER ->
            [ok |-> FALSE, item |-> "none", err |-> "found untracked memory mapped into VmSpace"]

\* query(): item.try_into().unwrap()
VmQuery ==
    /\ ItemStep
    /\ pt_cursor.va < ItemsEnd
    /\ LET r == TryFromItem(PageTableQuery(pt_cursor.items, pt_cursor.va))
       IN  last' = IF r.ok
                   THEN [kind |-> "vm_query", va |-> pt_cursor.va, item |-> r.item]
                   ELSE [kind |-> "panic", op |-> "query", va |-> pt_cursor.va, len |-> 0,
                         what |-> r.err]
    /\ UNCHANGED pt_cursor

\* The loop of unmap over these slots: take_next removes the first item up to end_va;
\* an item that is not tracked ends the loop with a panic.
RECURSIVE ItemUnmapLoop(_, _, _)
ItemUnmapLoop(items, va, end_va) ==
    LET mapped == {p \in PageNos : /\ va <= p * PAGE_SIZE
                                   /\ p * PAGE_SIZE < end_va
                                   /\ items[p] # "NotMapped"}
    IN  IF mapped = {}
        THEN [items |-> items, va |-> end_va, panic |-> FALSE]
        ELSE LET p == CHOOSE q \in mapped : \A r \in mapped : q <= r
                 taken == [items EXCEPT ![p] = "NotMapped"]
             IN  IF items[p] = "Untracked"
                 THEN [items |-> taken, va |-> (p + 1) * PAGE_SIZE, panic |-> TRUE]
                 ELSE ItemUnmapLoop(taken, (p + 1) * PAGE_SIZE, end_va)

\* A faulty unmap: the length is not checked.
VmUnmapUnchecked(len) ==
    /\ ItemStep
    /\ pt_cursor.va + len <= ItemsEnd
    /\ LET u == ItemUnmapLoop(pt_cursor.items, pt_cursor.va, pt_cursor.va + len)
       IN  /\ pt_cursor' = [items |-> u.items, va |-> u.va]
           /\ last' = IF u.panic
                      THEN [kind |-> "panic", op |-> "unmap", va |-> pt_cursor.va,
                            len |-> len,
                            what |-> "found untracked memory mapped into VmSpace"]
                      ELSE [kind |-> "vm_unmap", va |-> pt_cursor.va, len |-> len]

\* unmap(len): the assertion on len, then the loop.
VmUnmap(len) ==
    /\ ItemStep
    /\ pt_cursor.va + len <= ItemsEnd
    /\ IF len % PAGE_SIZE # 0
       THEN /\ last' = [kind |-> "panic", op |-> "unmap", va |-> pt_cursor.va, len |-> len,
                        what |-> "assertion failed: len % super::PAGE_SIZE == 0"]
            /\ UNCHANGED pt_cursor
       ELSE LET u == ItemUnmapLoop(pt_cursor.items, pt_cursor.va, pt_cursor.va + len)
            IN  /\ pt_cursor' = [items |-> u.items, va |-> u.va]
                /\ last' = IF u.panic
                           THEN [kind |-> "panic", op |-> "unmap", va |-> pt_cursor.va,
                                 len |-> len,
                                 what |-> "found untracked memory mapped into VmSpace"]
                           ELSE [kind |-> "vm_unmap", va |-> pt_cursor.va, len |-> len]

(***************************************************************************)
(* The specification of these cursors: items of any kind are mapped, then  *)
(* queried and unmapped with any length, a multiple of the page size or    *)
(* not.                                                                    *)
(***************************************************************************)
UnmapLens == Lens \cup {1, PAGE_SIZE + 1}

NextItem ==
    \/ \E kind \in ItemKinds : ItemMap(kind)
    \/ \E p \in PageNos : ItemJump(p * PAGE_SIZE)
    \/ VmQuery
    \/ \E len \in UnmapLens : VmUnmap(len)

SpecItem == InitFrame /\ [][NextItem]_vars

(***************************************************************************)
(* The entries that the kernel writes into the page tables, and the walk   *)
(* of the interpreter over them.  The kernel builds an entry with new_pt   *)
(* or new_page and changes the properties of a present entry with          *)
(* set_prop; page_walk reads the words of the tables from the root down.   *)
(***************************************************************************)
\* A step on the page tables in the physical memory.
WalkStep ==
    ~Panicked /\ UNCHANGED <<vmVars, calls, page_fault_handler, frameVars, levelVars,
                              upper_half, smpVars, PAGE_STATES>>

\* The entry at the index of the table is set.
SetEntry(mem, table, index, raw) == [mem EXCEPT ![table][index] = raw]

\* An entry of a table is set to new_pt(paddr).
EntryNewPt(table, index, paddr) ==
    /\ WalkStep
    /\ PHYSICAL_MEM' = SetEntry(PHYSICAL_MEM, table, index, PteNewPt(paddr))
    /\ last' = [kind |-> "new_pt", table |-> table, index |-> index, paddr |-> paddr,
                raw |-> PteNewPt(paddr)]

\* An entry of a table is set to new_page(paddr, level, prop), which panics inside
\* set_prop on a cache policy that has no encoding.
EntryNewPage(table, index, paddr, level, prop) ==
    /\ WalkStep
    /\ IF SetPropPanics(prop)
       THEN /\ last' = [kind |-> "panic", op |-> "new_page", prop |-> prop,
                        what |-> "unsupported cache policy"]
            /\ UNCHANGED PHYSICAL_MEM
       ELSE /\ PHYSICAL_MEM' = SetEntry(PHYSICAL_MEM, table, index,
                                        PteNewPage(paddr, level, prop))
            /\ last' = [kind |-> "new_page", table |-> table, index |-> index,
                        paddr |-> paddr, level |-> level, prop |-> prop,
                        raw |-> PteNewPage(paddr, level, prop)]

\* set_prop(prop) on a present entry of a table.
EntrySetProp(table, index, prop) ==
    /\ WalkStep
    /\ PteIsPresent(PHYSICAL_MEM[table][index])
    /\ LET before == PHYSICAL_MEM[table][index]
       IN  IF SetPropPanics(prop)
           THEN /\ last' = [kind |-> "panic", op |-> "set_prop", prop |-> prop,
                            what |-> "unsupported cache policy"]
                /\ UNCHANGED PHYSICAL_MEM
           ELSE /\ PHYSICAL_MEM' = SetEntry(PHYSICAL_MEM, table, index,
                                            PteSetProp(before, prop))
                /\ last' = [kind |-> "set_prop", table |-> table, index |-> index,
                            prop |-> prop, before |-> before,
                            raw |-> PteSetProp(before, prop)]

\* The loop of page_walk from the table at current_paddr of the level: the physical
\* address.  A read of a word outside the physical memory is undefined behaviour.
RECURSIVE PageWalkFrom(_, _, _, _)
PageWalkFrom(mem, current_paddr, current_level, vaddr) ==
    IF current_level < 1
    THEN [kind |-> "Some", pa |-> current_paddr + (vaddr % PAGE_SIZE)]
    ELSE IF current_paddr \div PAGE_SIZE \notin MemPages
    THEN [kind |-> "ub", pa |-> 0]
    ELSE LET page_table_entry ==
                 mem[current_paddr \div PAGE_SIZE][PteIndex(vaddr, current_level)]
             next_paddr == (page_table_entry \div PAGE_SIZE) * PAGE_SIZE
         IN  IF HasBit(page_table_entry, PTF_HUGE)
             THEN [kind |-> "Some", pa |-> next_paddr + (vaddr % LevelSize(current_level))]
             ELSE PageWalkFrom(mem, next_paddr, current_level - 1, vaddr)

\* page_walk(vaddr) of the page table whose root is root_paddr.
PageWalk(mem, root_paddr, vaddr) == PageWalkFrom(mem, root_paddr, NR_LEVELS, vaddr)

\* The interpreter walks the boot page table, as the kernel has changed it.
PageWalkCall(vaddr) ==
    /\ WalkStep
    /\ last' = [kind |-> "page_walk", vaddr |-> vaddr,
                res |-> PageWalk(PHYSICAL_MEM, BOOT_PT_PADDR, vaddr)]
    /\ UNCHANGED PHYSICAL_MEM

(***************************************************************************)
(* The specification of the entries and the walk: from the boot page       *)
(* table, the kernel sets an entry of the table of level 2 and one of the  *)
(* first table of level 1, to tables and to pages of memory, with          *)
(* properties of every cache policy; and the interpreter walks addresses   *)
(* of the three mappings of the memory, and addresses that nothing maps.   *)
(***************************************************************************)
\* The entries the kernel writes: the second entry of the table of level 2, and the
\* second entry of the first table of level 1.
WrittenEntries == {[page |-> BOOT_PT_PD_0G_1G \div PAGE_SIZE, index |-> 1, level |-> 2],
                   [page |-> BOOT_PT_PT_ADDR \div PAGE_SIZE, index |-> 1, level |-> 1]}

\* The tables of the last level, for new_pt.
LastLevelTables == {BOOT_PT_PT_ADDR + i * PAGE_SIZE : i \in 0 .. (BootPageNum - 1)}

\* The memory that new_page maps: the first page, and the first that is aligned to
\* the size of a page of level 2.
MappedPaddrs == {0, LevelSize(2)}

EntryProps ==
    {NewPageProperty(flags, cache) : flags \in {{"R"}, {"R", "W"}}, cache \in CachePolicies}

\* The bases of the mappings, and the base of addresses that the root does not map.
WalkBases == {0, LINEAR_MAPPING_BASE_VADDR, KERNEL_CODE_BASE_VADDR, LevelSize(NR_LEVELS)}

\* Addresses in every page of the memory and in the page after it, at an offset.
WalkVaddrs ==
    {base + p * PAGE_SIZE + off : base \in WalkBases, p \in 0 .. TOTAL_MEM_PAGES,
                                  off \in {0, 1}}

NextWalk ==
    \/ \E e \in WrittenEntries :
          \/ \E paddr \in LastLevelTables :
                e.level = 2 /\ EntryNewPt(e.page, e.index, paddr)
          \/ \E paddr \in MappedPaddrs, prop \in EntryProps :
                EntryNewPage(e.page, e.index, paddr, e.level, prop)
          \/ \E prop \in EntryProps : EntrySetProp(e.page, e.index, prop)
    \/ \E vaddr \in WalkVaddrs : PageWalkCall(vaddr)

SpecWalk == InitFrame /\ [][NextWalk]_vars

(***************************************************************************)
(* Properties of the flush order of map and unmap.                         *)
(***************************************************************************)
\* The events of the latest map or unmap, in program order.
FlushLog == IF last.kind \in {"map", "unmap"} THEN last.log ELSE <<>>

\* A flush operation covers va: a flush of that address, or a flush-all.
Covers(op, va) == op.t = "All" \/ (op.t = "Address" /\ op.va = va)

IssuedBefore(log, i) ==
    \E j \in 1 .. (i - 1) : log[j].ev = "issue" /\ Covers(log[j].op, log[i].va)

IssuedAndDispatchedAfter(log, i) ==
    \E j \in (i + 1) .. Len(log) :
        /\ log[j].ev = "issue"
        /\ Covers(log[j].op, log[i].va)
        /\ \E d \in (j + 1) .. Len(log) : log[d].ev = "dispatch"

\* C1 as stated: for every len and every CPU set, a frame taken out of the page table
\* by unmap or replaced by map is never dropped before a flush operation covering its
\* virtual address has been issued to the cursor's flusher.
C1_DropAfterIssue ==
    \A i \in DOMAIN FlushLog : FlushLog[i].ev = "drop" => IssuedBefore(FlushLog, i)

\* C1 amended: a frame is dropped only after a covering flush has been issued, except
\* in an unmap of more than FLUSH_ALL_RANGE_THRESHOLD bytes whose flusher needs no
\* remote flush: there the frame is dropped at once, and a flush-all is issued and
\* dispatched later in the same unmap call.
C1_DropAfterIssueOrLocalFlushAll ==
    \A i \in DOMAIN FlushLog :
        FlushLog[i].ev = "drop" =>
            \/ IssuedBefore(FlushLog, i)
            \/ /\ last.kind = "unmap"
               /\ last.prefer_all
               /\ ~last.need_remote
               /\ IssuedAndDispatchedAfter(FlushLog, i)

\* An unmap that dropped a frame at once, and (in other states) a map or an unmap that
\* handed the frame to the flusher: here the former.
C1_Witness ==
    /\ last.kind = "unmap"
    /\ \E i \in DOMAIN FlushLog : FlushLog[i].ev = "drop" /\ ~IssuedBefore(FlushLog, i)

(***************************************************************************)
(* Properties of the activation lock, activate and clear.                  *)
(***************************************************************************)
\* The CPUs inside activate(vs) that hold the activation write lock.
ActivatingPastLock(vs) ==
    {c \in CpuIds : /\ pc[c].op \in {"act_add", "act_store", "act_remove", "act_switch"}
                    /\ pc[c].vs = vs}

\* The CPUs inside activate(vs) that wait for the activation write lock.
ActivatingAtLock(vs) == {c \in CpuIds : pc[c].op = "act_lock" /\ pc[c].vs = vs}

\* The CPUs whose ACTIVATED_VM_SPACE points to vs.
ActivatedOn(vs) == {c \in CpuIds : activated[c] = vs}

\* C2: while a mutable cursor of a VmSpace is alive, no activate() of that VmSpace is
\* past the acquisition of the activation write lock, and the CPU set of the VmSpace
\* has gained no CPU since the cursor was created.
C2_CursorMutExcludesActivate ==
    \A k \in cursors :
        k.mut => /\ ActivatingPastLock(k.vs) = {}
                 /\ cpus[k.vs] \subseteq k.fcpus

\* A mutable cursor is alive while another CPU is inside activate() of its VmSpace.
C2_Witness ==
    \E k \in cursors : k.mut /\ ActivatingAtLock(k.vs) \ {k.cpu} # {}

\* C3: at every moment of the life of a mutable cursor, the CPU set its flusher
\* captured at creation contains every CPU on which the VmSpace is activated.
C3_FlusherCoversActivated ==
    \A k \in cursors : k.mut => ActivatedOn(k.vs) \subseteq k.fcpus

\* A mutable cursor of a VmSpace that is activated on a CPU, alive while another CPU
\* is inside activate() of that VmSpace.
C3_Witness ==
    \E k \in cursors :
        /\ k.mut
        /\ ActivatedOn(k.vs) # {}
        /\ \E d \in CpuIds \ ActivatedOn(k.vs) : d \in ActivatingAtLock(k.vs)

\* C4, the state in which activate() returns and the state in which it switches.
ActivateReturns ==
    /\ last.kind = "activate" =>
           /\ activated[last.cpu] = last.vs
           /\ root[last.cpu] = last.vs
           /\ last.cpu \in cpus[last.vs]
           /\ last.prev # NULL => last.cpu \notin cpus[last.prev]
    /\ \A c \in CpuIds :
           /\ pc[c].op \in {"act_lock", "act_add", "act_store", "act_remove", "act_switch"}
                 => root[c] = pc[c].last_ptr
           /\ pc[c].op = "act_switch" =>
                 /\ c \in cpus[pc[c].vs]
                 /\ pc[c].last_ptr # NULL => c \notin cpus[pc[c].last_ptr]

\* C4, the early return: a call of activate() on the activated VmSpace changes nothing.
ActivateSameChangesNothing ==
    (calls' # calls /\ last'.kind = "activate_same")
        => (/\ activated[last'.cpu] = last'.vs
            /\ UNCHANGED <<pt, cpus, rw, activated, root, cursors, pc>>)

\* C4: after vs.activate() returns on CPU c, ACTIVATED_VM_SPACE of c points to vs, c is
\* in the CPU set of vs and not in the CPU set of the VmSpace activated before; the
\* page table is switched only after both updates of the CPU sets; and activate() of
\* the VmSpace that is already activated on c changes no state.
C4_ActivateEffect == []ActivateReturns /\ [][ActivateSameChangesNothing]_vars

\* activate() has returned on a CPU that had another VmSpace activated before.
C4_Witness == last.kind = "activate" /\ last.prev # NULL

\* C5: clear() returns Err(CursorsAlive) whenever a mutable cursor of the VmSpace is
\* alive when it is called, and then every mapping of the page table is as it was.
C5_ClearWithCursorMutAlive ==
    (last.kind = "clear" /\ last.at_call.mut_cursor)
        => (last.res = "CursorsAlive" /\ pt[last.vs] = last.at_call.pt)

\* clear() has returned Err(CursorsAlive) on a VmSpace with a mapping and a live
\* mutable cursor.
C5_Witness ==
    /\ last.kind = "clear"
    /\ last.res = "CursorsAlive"
    /\ last.at_call.mut_cursor
    /\ pt[last.vs] # EmptyTable

\* C6: clear() returns an error if any cursor of the VmSpace is alive when it is
\* called, whether the cursor is read-only or mutable.
C6_ClearWithAnyCursorAlive ==
    (last.kind = "clear" /\ last.at_call.cursor) => last.res # "Ok"

\* The CPU set that decides the result of the latest clear().
ClearCpuSet == IF last.res = "CursorsAlive" THEN last.at_call.cpus ELSE last.cpus

\* C7: when no cursor holds the activation lock, clear() returns
\* Err(PageTableActivated(cpus)) exactly when the CPU set of the VmSpace is not empty
\* and is not the set of the calling CPU alone; the set returned is the set observed,
\* and the page table is left as it was.
C7_ClearActivatedExactly ==
    (last.kind = "clear" /\ last.at_call.readers = 0) =>
        /\ last.res = "PageTableActivated"
              <=> (ClearCpuSet # {} /\ ClearCpuSet # {last.cpu})
        /\ last.res = "PageTableActivated"
              => (last.cpus = ClearCpuSet /\ pt[last.vs] = last.at_call.pt)

\* C8: when clear() returns Ok, every user address of the VmSpace queries as not
\* mapped, whatever was mapped before; and if the VmSpace was activated on the calling
\* CPU only, the local TLB is flushed after the table is cleared, before the return.
C8_ClearOk ==
    (last.kind = "clear" /\ last.res = "Ok") =>
        /\ \A p \in PageNos : QueryItem(pt[last.vs], p * PAGE_SIZE).kind = "NotMapped"
        /\ last.log[1] = "pt_clear"
        /\ last.cpus = {last.cpu}
              => last.log = <<"pt_clear", "tlb_flush_all_excluding_global">>

\* clear() has returned Ok on a VmSpace that had a mapping and was activated on the
\* calling CPU only.
C8_Witness ==
    /\ last.kind = "clear"
    /\ last.res = "Ok"
    /\ last.cpus = {last.cpu}
    /\ last.at_call.pt # EmptyTable

\* C9: no two live cursors of one page table, read-only or mutable, cover overlapping
\* ranges of virtual addresses: the creation of the second waits.
C9_NoOverlappingCursors ==
    \A k1 \in cursors, k2 \in cursors :
        (k1 # k2 /\ k1.vs = k2.vs) => ~Overlap(k1.lo, k1.hi, k2.lo, k2.hi)

\* A cursor is alive while a CPU waits to create a cursor over an overlapping range.
C9_Witness ==
    \E k \in cursors, c \in CpuIds :
        /\ pc[c].op = "cur_lock"
        /\ pc[c].vs = k.vs
        /\ Overlap(pc[c].lo, pc[c].hi, k.lo, k.hi)

(***************************************************************************)
(* Properties of map followed by query.                                    *)
(***************************************************************************)
\* The properties an entry of this architecture encodes: access rights, privilege
\* flags and one of the cache policies set_prop accepts.
LegalProperty(prop) ==
    prop.flags \subseteq EncodedPageFlagNames /\ ~SetPropPanics(prop)

\* C10: for every page-aligned user range and every legal property, a query at the
\* address where map(frame, prop) has just mapped returns Mapped with that address,
\* the physical address of the frame and the property.
C10_MapQueryRoundTrip ==
    (last.kind = "map" /\ LegalProperty(last.prop)) =>
        QueryItem(pt[last.vs], last.va) =
            [kind |-> "Mapped", va |-> last.va, paddr |-> last.paddr, prop |-> last.prop]

\* A frame has been mapped at the second page of a range with a property that sets
\* some flags and leaves others, and a cache policy other than write-back.
C10_Witness ==
    /\ last.kind = "map"
    /\ last.va > 0
    /\ last.prop = [flags |-> {"R", "X"}, priv_flags |-> {"GLOBAL"},
                    cache |-> "Writethrough"]

(***************************************************************************)
(* Properties of a map over an address that is mapped.                     *)
(***************************************************************************)
\* The latest step is a call of map at an address that was mapped when it was called.
MapOverMapped ==
    /\ calls' # calls
    /\ last'.kind = "map"
    /\ PteIsPresent(pt[last'.vs][PageOf(last'.va)])

\* The frame an entry of the page table held before the step.
OldPaddr(vs, va) == PtePaddr(pt[vs][PageOf(va)])

\* C11: a map at an address that is already mapped replaces the mapping: a query at
\* the address then reports the frame and the property mapped last, and the frame
\* mapped before is taken out of the table and handed to the caller, which gives it to
\* its flusher and drops it after the dispatch: it is neither leaked nor kept.
C11_MapReplaces ==
    [][(MapOverMapped /\ LegalProperty(last'.prop)) =>
          LET va == last'.va
              old == OldPaddr(last'.vs, va)
              log == last'.log
          IN  /\ QueryItem(pt'[last'.vs], va) =
                     [kind |-> "Mapped", va |-> va, paddr |-> last'.paddr,
                      prop |-> last'.prop]
              /\ \E t \in DOMAIN log : log[t] = EvTake(va, old)
              /\ \E i \in DOMAIN log : log[i].ev = "issue" /\ log[i].paddr = old
              /\ \E d \in DOMAIN log : log[d] = EvDrop(va, old)
              /\ Cardinality({d \in DOMAIN log : log[d].ev = "drop"}) = 1]_vars

\* A read-only mapping of the second frame has replaced the read-write mapping of the
\* first frame.
C11_Witness ==
    /\ last.kind = "map"
    /\ last.log # <<>>
    /\ last.paddr = FramePaddr(2)
    /\ last.log[1].paddr = FramePaddr(1)
    /\ last.prop = NewPageProperty({"R"}, "Writeback")
    /\ QueryItem(pt[last.vs], last.va).paddr = FramePaddr(2)

\* The positions in the log of a map of the installation of the new entry (which
\* yields the replaced frame), of the flush issued, and of the dispatch.
MapInstalledAt(log) == {t \in DOMAIN log : log[t].ev = "take"}

MapIssuedAt(log, va) == {i \in DOMAIN log : log[i].ev = "issue" /\ Covers(log[i].op, va)}

MapDispatchedAt(log) == {d \in DOMAIN log : log[d].ev = "dispatch"}

\* C12 as stated: when a map replaces a mapping, a flush of the address is recorded
\* by the flusher before the new entry is installed in the page table.
C12_FlushBeforeInstall ==
    (last.kind = "map" /\ last.log # <<>>) =>
        \E i \in MapIssuedAt(last.log, last.va) :
            \A t \in MapInstalledAt(last.log) : i < t

\* C12 amended: when a map replaces a mapping, the new entry is installed first (the
\* installation yields the replaced frame), then a flush of the address is issued with
\* that frame, then the flush is dispatched, all before map returns; the replaced
\* frame is dropped only after the dispatch.
C12_FlushAfterInstallBeforeReturn ==
    [][MapOverMapped =>
          LET va == last'.va
              log == last'.log
          IN  \E t \in MapInstalledAt(log), i \in MapIssuedAt(log, va),
                 d \in MapDispatchedAt(log) :
                  /\ t < i
                  /\ i < d
                  /\ log[i].op = OpAddress(va)
                  /\ \A r \in DOMAIN log : log[r].ev = "drop" => d < r]_vars

\* A map has replaced a mapping of a VmSpace that is activated on a CPU.
C12_Witness ==
    /\ last.kind = "map"
    /\ last.log # <<>>
    /\ ActivatedOn(last.vs) # {}
    /\ Len(last.log) = 4

(***************************************************************************)
(* Properties of the range check of cursor creation.                       *)
(***************************************************************************)
\* A range that is not empty, whose ends are page-aligned and whose addresses are all
\* below MAX_USERSPACE_VADDR.
InsideUserSpace(lo, hi) ==
    /\ lo < hi
    /\ lo % PAGE_SIZE = 0
    /\ hi % PAGE_SIZE = 0
    /\ 0 <= lo
    /\ hi - 1 < MAX_USERSPACE_VADDR

\* The CPUs that a step takes from outside cursor creation to the wait for the range.
EntersCursorLock == {c \in CpuIds : pc[c].op = "idle" /\ pc'[c].op = "cur_lock"}

\* C20: cursor() and cursor_mut() return an error, and leave the cursors, the
\* activation locks and the page tables as they were, exactly for the ranges that are
\* empty, misaligned or not inside the user address space; for every other range the
\* call goes on to take the range, and it completes as soon as no live cursor overlaps.
C20_CursorRangeCheck ==
    [][/\ (calls' # calls /\ last'.kind = "cursor_err") =>
             /\ ~InsideUserSpace(last'.lo, last'.hi)
             /\ last'.err = "InvalidArgs"
             /\ UNCHANGED <<pt, cpus, rw, activated, root, cursors, pc>>
       /\ \A c \in EntersCursorLock :
             /\ InsideUserSpace(pc'[c].lo, pc'[c].hi)
             /\ UNCHANGED <<pt, cpus, rw, activated, root, cursors>>
       /\ \A c \in CpuIds :
             (pc[c].op = "cur_lock" /\ RangeFree(pc[c].vs, pc[c].lo, pc[c].hi))
                 => ENABLED CursorLock(c)]_vars

\* A cursor over the whole user address space is alive, and the latest call, on the
\* same VmSpace, was refused for a range that starts at MAX_USERSPACE_VADDR.
C20_Witness ==
    /\ last.kind = "cursor_err"
    /\ last.lo = MAX_USERSPACE_VADDR
    /\ \E k \in cursors : k.vs = last.vs /\ k.lo = 0 /\ k.hi = MAX_USERSPACE_VADDR

(***************************************************************************)
(* Properties of unmap.                                                    *)
(***************************************************************************)
\* The latest step is a call of unmap that has returned.
UnmapStep == calls' # calls /\ last'.kind = "unmap"

\* The frames a log records as taken out of the page table.
TakenIn(log) == {i \in DOMAIN log : log[i].ev = "take"}

\* The table of the cursor's VmSpace after one more unmap of the same range.
UnmappedAgain(table, va, len) == UnmapLoop(table, va, va + len, <<>>, FALSE).pt

\* C13: unmap over a range without any mapping returns normally, takes no frame and
\* changes no mapping of any page table; no call of unmap panics; and the table an
\* unmap leaves is the table a second unmap of the same range leaves.
C13_UnmapIdempotent ==
    [][/\ (UnmapStep /\ PresentIn(pt[last'.vs], last'.va, last'.len) = {}) =>
             /\ pt' = pt
             /\ TakenIn(last'.log) = {}
       /\ UnmapStep => UnmappedAgain(pt'[last'.vs], last'.va, last'.len) = pt'[last'.vs]
       /\ (calls' # calls /\ last'.kind = "panic") => last'.op # "unmap"]_vars

\* The second call on the first VmSpace was an unmap of the whole user address space
\* that found nothing mapped.
C13_Witness ==
    /\ last.kind = "unmap"
    /\ last.vs = 1
    /\ last.va = 0
    /\ last.len = MAX_USERSPACE_VADDR
    /\ calls = 2
    /\ TakenIn(last.log) = {}

\* C14: after unmap(len) called at va returns, every page of [va, va + len) queries as
\* not mapped, the cursor stands at va + len, and every other entry of every page
\* table is the entry it was before the call.
C14_UnmapFrame ==
    [][UnmapStep =>
          LET vs == last'.vs
              va == last'.va
              end == last'.va + last'.len
          IN  /\ \A p \in PageNos :
                     (va <= p * PAGE_SIZE /\ p * PAGE_SIZE < end)
                         => QueryItem(pt'[vs], p * PAGE_SIZE).kind = "NotMapped"
              /\ \E k \in cursors' :
                     k.vs = vs /\ k.cpu = last'.cpu /\ k.lo <= va /\ end <= k.hi /\ k.va = end
              /\ \A ws \in VmSpaces, p \in PageNos :
                     (ws # vs \/ p * PAGE_SIZE < va \/ end <= p * PAGE_SIZE)
                         => pt'[ws][p] = pt[ws][p]]_vars

\* An unmap of every page above the first has taken a frame, and the first page is
\* still mapped.
C14_Witness ==
    /\ last.kind = "unmap"
    /\ last.va = PAGE_SIZE
    /\ last.va + last.len = MAX_USERSPACE_VADDR
    /\ Cardinality(TakenIn(last.log)) = NPages - 1
    /\ QueryItem(pt[last.vs], 0).kind = "Mapped"

(***************************************************************************)
(* Properties of copy_from.                                                *)
(***************************************************************************)
\* The latest step is a call of copy_from that has returned.
CopyStep == calls' # calls /\ last'.kind = "copy_from"

\* The page of the destination that a page of the source is copied to.
DestPage(ev, sp) == sp - PageOf(ev.src_va) + PageOf(ev.va)

ReadWrite == NewPageProperty({"R", "W"}, "Writeback")

ReadOnly == NewPageProperty({"R"}, "Writeback")

\* The pages of the source of the latest copy_from that were mapped read-write.
CopiedReadWrite(ev) ==
    {sp \in PresentIn(pt[ev.src_vs], ev.src_va, ev.len) :
        QueryItem(pt[ev.src_vs], sp * PAGE_SIZE).prop = ReadWrite}

RECURSIVE ProtectAll(_, _, _, _)
ProtectAll(table, va, end, op) ==
    LET r == ProtectNextPt(table, va, end - va, op)
    IN  IF r.range = <<>> THEN r.pt ELSE ProtectAll(r.pt, r.va, end, op)

FrameRefs(tables, paddr) ==
    {e \in VmSpaces \X PageNos :
        PteIsPresent(tables[e[1]][e[2]]) /\ PtePaddr(tables[e[1]][e[2]]) = paddr}

\* The latest step was a call of map or unmap, or the drop of a page table.
OneTableStep == calls' # calls /\ last'.kind \in {"map", "unmap", "drop_table"}

\* The frames the source of a copy_from maps in the range copied.
SourceFrames(ev) ==
    {PtePaddr(pt[ev.src_vs][sp]) : sp \in PresentIn(pt[ev.src_vs], ev.src_va, ev.len)}

DestCursors(vs, va) == {k \in cursors : k.vs = vs /\ k.lo <= va /\ va < k.hi}

\* C18: copy_from returns only if no page of the range of the destination cursor was
\* mapped when it was called; if one was, it panics and every page table is as it was.
\* A call that returns leaves every entry the destination had before as it was.
C18_CopyIntoMappedPanics ==
    [][/\ CopyStep =>
             /\ \A k \in DestCursors(last'.vs, last'.va) :
                    PresentIn(pt[k.vs], k.lo, k.hi - k.lo) = {}
             /\ \A p \in PageNos :
                    PteIsPresent(pt[last'.vs][p]) => pt'[last'.vs][p] = pt[last'.vs][p]
       /\ (calls' # calls /\ last'.kind = "panic" /\ last'.op = "copy_from") =>
             /\ pt' = pt
             /\ \/ last'.what = "out of the cursor range"
                \/ \E k \in cursors :
                       k.vs = last'.vs /\ PresentIn(pt[k.vs], k.lo, k.hi - k.lo) # {}]_vars

\* copy_from has panicked, called on a destination that maps a frame at its second
\* page and nothing at its first.
C18_Witness ==
    /\ last.kind = "panic"
    /\ last.op = "copy_from"
    /\ last.what = "mapped pages in the range"
    /\ \E k \in cursors :
           /\ k.vs = last.vs
           /\ k.va = 0
           /\ QueryItem(pt[k.vs], 0).kind = "NotMapped"
           /\ QueryItem(pt[k.vs], PAGE_SIZE).kind = "Mapped"
           /\ \E src \in cursors \ {k} : QueryItem(pt[src.vs], 0).kind = "Mapped"

(***************************************************************************)
(* Properties of protect_next.                                             *)
(***************************************************************************)
\* The latest step is a call of protect_next that has returned.
ProtectStep == calls' # calls /\ last'.kind = "protect"

\* C19: protect_next(len, op) called at va applies op to the property of the first
\* mapping in [va, va + len), returns the range of that page and leaves the cursor at
\* its end; without a mapping in the range it returns None, the cursor is at va + len
\* and no entry has changed.  In both cases the frame of the mapping is the same, every
\* other entry is as it was, and the flusher has been given no operation.
C19_ProtectNext ==
    [][ProtectStep =>
          LET vs == last'.vs
              va == last'.va
              present == PresentIn(pt[vs], va, last'.len)
          IN  /\ last'.log = <<>>
              /\ IF present = {}
                 THEN /\ last'.range = <<>>
                      /\ pt' = pt
                      /\ \E k \in cursors' : k.vs = vs /\ k.va = va + last'.len
                 ELSE LET p == CHOOSE q \in present : \A r \in present : q <= r
                          was == QueryItem(pt[vs], p * PAGE_SIZE)
                      IN  /\ last'.range = <<p * PAGE_SIZE, (p + 1) * PAGE_SIZE>>
                          /\ \E k \in cursors' : k.vs = vs /\ k.va = (p + 1) * PAGE_SIZE
                          /\ QueryItem(pt'[vs], p * PAGE_SIZE) =
                                 [was EXCEPT !.prop = ApplyOp(last'.op, was.prop)]
                          /\ \A ws \in VmSpaces, q \in PageNos :
                                 (ws # vs \/ q # p) => pt'[ws][q] = pt[ws][q]]_vars

\* protect_next over the whole user address space has skipped the first page, which
\* maps nothing, and taken the write flag from the mapping of the second page.
C19_Witness ==
    /\ last.kind = "protect"
    /\ last.va = 0
    /\ last.len = MAX_USERSPACE_VADDR
    /\ last.op = "remove_write"
    /\ last.range = <<PAGE_SIZE, 2 * PAGE_SIZE>>
    /\ QueryItem(pt[last.vs], PAGE_SIZE).prop = ReadOnly
    /\ \E k \in cursors : k.vs = last.vs /\ k.va = 2 * PAGE_SIZE

(***************************************************************************)
(* Properties of VmSpace::reader and VmSpace::writer.                      *)
(***************************************************************************)
\* The latest step asked for a reader or a writer.
AccessEvent == last.kind \in {"reader", "writer"}

\* The range ends at or below the user-address ceiling (in unbounded arithmetic).
LegalUserRange(vaddr, len) == vaddr + len <= MAX_USERSPACE_VADDR

\* C21: reader and writer return AccessDenied whenever the page table active on the
\* calling CPU is not the root table of this VmSpace, and return a reader or writer
\* when it is active and the range is a legal user range; whatever VmSpaces were
\* activated on the CPU before, only the one activated most recently hands them out.
C21_AccessNeedsActiveTable ==
    AccessEvent =>
        /\ root[last.cpu] # last.vs => last.res = "AccessDenied"
        /\ (root[last.cpu] = last.vs /\ LegalUserRange(last.vaddr, last.len))
              => last.res = "Ok"
        /\ last.res = "Ok" => activated[last.cpu] = last.vs

\* A writer is handed out on the first CPU for the second VmSpace, activated there
\* after the first.
C21_Witness ==
    /\ last.kind = "writer"
    /\ last.cpu = 0
    /\ last.vs = 2
    /\ last.res = "Ok"

\* C22: reader(vaddr, len) and writer(vaddr, len) return AccessDenied for every pair
\* whose end vaddr + len is above MAX_USERSPACE_VADDR, also when the sum overflows the
\* machine word: no reader or writer is handed out for a range that wraps around or
\* reaches above the user-address ceiling.
C22_AccessEndChecked ==
    (AccessEvent /\ ~LegalUserRange(last.vaddr, last.len)) => last.res = "AccessDenied"

\* A range of the active VmSpace whose end overflows the machine word, and would wrap
\* around to an address inside the user address space, is denied.
C22_Witness ==
    /\ AccessEvent
    /\ root[last.cpu] = last.vs
    /\ last.vaddr + last.len > USIZE_MAX
    /\ WrappingAdd(last.vaddr, last.len) <= MAX_USERSPACE_VADDR
    /\ last.res = "AccessDenied"

(***************************************************************************)
(* Properties of the page-fault handler.                                   *)
(***************************************************************************)
RegisterStep == calls' # calls /\ last'.kind = "register"

PageFaultStep == calls' # calls /\ last'.kind = "page_fault"

\* C23: handle_page_fault reports the fault as unhandled (Err) whenever no handler is
\* registered; once register_page_fault_handler(f) has run, every handle_page_fault
\* invokes f exactly once and returns the result of f, until a later registration
\* replaces f: a registration makes its handler the registered one whatever was
\* registered before, and no other step changes the registered handler.
C23_PageFaultHandler ==
    [][/\ PageFaultStep =>
             LET f == page_fault_handler[last'.vs]
             IN  IF f = NULL
                 THEN last'.res = "Err" /\ last'.invoked = <<>>
                 ELSE last'.invoked = <<f>> /\ last'.res = HandlerResult(f)
       /\ RegisterStep =>
             page_fault_handler' = [page_fault_handler EXCEPT ![last'.vs] = last'.func]
       /\ ~RegisterStep => page_fault_handler' = page_fault_handler]_vars

\* A fault is handled by the handler that returns Ok after two calls were made.
C23_Witness ==
    /\ last.kind = "page_fault"
    /\ last.invoked = <<1>>
    /\ last.res = "Ok"
    /\ calls = 2

(***************************************************************************)
(* Properties of frames.                                                   *)
(***************************************************************************)
FrameEvent(kind) == last'.kind = kind /\ last'.res = "Ok"

\* C24: for any frame and any interleaving of clones and drops of its handles, the
\* reference count equals the number of live handles: a fresh frame has count 1, each
\* clone adds exactly 1 and each drop removes exactly 1 (so n clones followed by n
\* drops give the count there was before).
C24_RefCountIsLiveHandles ==
    /\ [](\A f \in FrameNos : ref_count[f] = LiveHandles(f))
    /\ [][\A f \in FrameNos :
            /\ (FrameEvent("alloc_frame") /\ last'.frame = f) => ref_count'[f] = 1
            /\ (FrameEvent("clone_frame") /\ last'.frame = f)
                  => ref_count'[f] = ref_count[f] + 1
            /\ (FrameEvent("drop_frame") /\ last'.frame = f)
                  => ref_count'[f] = ref_count[f] - 1
            /\ last'.frame # f => ref_count'[f] = ref_count[f]]_vars

\* A handle of a frame that has the most handles of the model was dropped.
C24_Witness ==
    /\ last.kind = "drop_frame"
    /\ ref_count[last.frame] = MaxRefs - 1
    /\ handles[last.frame].mapped > 0

LiveFrames == {f \in FrameNos : LiveHandles(f) > 0}

\* C25: a frame is reusable by the allocator exactly when its reference count is 0: no
\* frame is handed out while a handle of it is live, held by a caller or by a mapping;
\* the drop of the last handle makes it allocatable again; the available memory is the
\* initial amount minus PAGE_SIZE for every live frame.
C25_ReusableIffUnreferenced ==
    /\ [](/\ \A f \in FrameNos : f \in free_frames <=> ref_count[f] = 0
          /\ \A f \in LiveFrames : f \notin free_frames
          /\ MemAvailable = NFrames * PAGE_SIZE - PAGE_SIZE * Cardinality(LiveFrames))
    /\ [][/\ FrameEvent("alloc_frame")
               => last'.frame \in free_frames /\ LiveHandles(last'.frame) = 0
          /\ (FrameEvent("drop_frame") /\ LiveHandles(last'.frame) = 1)
               => last'.frame \in free_frames'
          /\ (last'.kind = "alloc_frame" /\ last'.res = "OutOfMemory")
               => free_frames = {}]_vars

\* A frame was handed out a second time: it is allocated, and frames of higher
\* addresses are still in use.
C25_Witness ==
    /\ last.kind = "alloc_frame"
    /\ last.res = "Ok"
    /\ \E g \in FrameNos : g > last.frame /\ g \in LiveFrames /\ handles[g].mapped > 0

(***************************************************************************)
(* Properties of pages of several sizes.                                   *)
(***************************************************************************)
\* The latest step mapped the first frame of a cursor.
FirstMap == last.kind = "leaf_map" /\ last.va = last.lo

SuperLevels == 2 .. HIGHEST_TRANSLATION_LEVEL

\* Every address of the page of the level at va is mapped to the frame, by one leaf.
WholePageMapped(va, level, paddr) ==
    \A a \in {va + p * PAGE_SIZE : p \in 0 .. (PageSizeAt(level) \div PAGE_SIZE - 1)} :
        LET item == LeafQuery(leaves, a)
        IN  item.kind = "Mapped" /\ item.paddr = paddr /\ item.va <= va

NewStep == calls' # calls /\ last'.kind = "new"

\* The entries of index i of two root tables are the same: same child node address,
\* same kind.
SameEntry(t, u, i) ==
    /\ upper_half[t][i].paddr = upper_half[u][i].paddr
    /\ upper_half[t][i].node = upper_half[u][i].node

\* C27: every VmSpace created by new() has, at each upper-half index of its root table,
\* the entry of the kernel page table, has no user mapping (every user address queries
\* NotMapped), an empty CPU set and no page-fault handler; the operations on the user
\* half of a VmSpace (cursors stay within the user address space) never change the
\* upper-half entries of that VmSpace, of the kernel table or of other VmSpaces.
C27_NewSharesKernelHalf ==
    /\ [][NewStep =>
            LET vs == last'.vs
            IN  /\ \A i \in UpperIdx :
                      /\ upper_half'[vs][i].paddr = upper_half[NULL][i].paddr
                      /\ upper_half'[vs][i].node = upper_half[NULL][i].node
                /\ \A p \in PageNos : QueryItem(pt'[vs], p * PAGE_SIZE).kind = "NotMapped"
                /\ cpus'[vs] = {}
                /\ page_fault_handler'[vs] = NULL]_vars
    /\ [][~NewStep => upper_half' = upper_half]_vars
    /\ [](\A vs \in DOMAIN upper_half, i \in UpperIdx : SameEntry(vs, NULL, i))
    /\ [](\A k \in cursors : Created(k.vs) /\ k.hi <= MAX_USERSPACE_VADDR)

\* A VmSpace was created in memory a VmSpace in use had left, and a frame was then
\* mapped in the first VmSpace.
C27_Witness ==
    /\ last.kind = "map"
    /\ last.vs = 1
    /\ \E vs \in DOMAIN upper_half : vs \notin {NULL, 1} /\ pt[vs] = EmptyTable
    /\ \E i \in UpperIdx : upper_half[NULL][i].paddr # BootUpperHalf[i].paddr

(***************************************************************************)
(* Properties of inter-processor calls.                                    *)
(***************************************************************************)
IpcIds == 1 .. MaxIpcCalls

IpcMade(id) == id <= Len(ipc_calls)

RanOn(id, cpu) == \E r \in ran : r.id = id /\ r.cpu = cpu

\* f runs on targets only, as the function of its call: on the calling CPU inside the
\* call, on any other CPU in the handler of the interrupt.
RanOnlyOnTargets ==
    \A r \in ran :
        LET call == ipc_calls[r.id]
        IN  /\ r.cpu \in call.targets
            /\ r.f = call.f
            /\ (r.ctx = "sync") = (r.cpu = call.cpu)
            /\ (r.ctx = "irq") = (r.cpu # call.cpu)

\* A call that returned ran f on the calling CPU, if that CPU is a target.
SyncBeforeReturn ==
    \A id \in IpcIds :
        (IpcMade(id) /\ ipc_calls[id].returned /\ ipc_calls[id].cpu \in ipc_calls[id].targets)
            => [id |-> id, cpu |-> ipc_calls[id].cpu, f |-> ipc_calls[id].f,
                ctx |-> "sync"] \in ran

\* Once f is queued on the targets, nothing stops the call until it returns.
ReturnsWithoutWaiting ==
    \A c \in CpuIds :
        ipc_pc[c].op \in {"send", "self", "ret"}
            => ENABLED (IpcSend(c) \/ IpcSelf(c) \/ IpcReturn(c))

Requested == PagesOf(last'.paddr, last'.count)

\* A change of the state of page i follows the lifecycle.
LifecycleStep(i) ==
    \/ PAGE_STATES'[i] = PAGE_STATES[i]
    \/ /\ last'.kind = "alloc_pages"
       /\ PAGE_STATES[i] = Unused
       /\ PAGE_STATES'[i] = Untyped
    \/ /\ last'.kind = "retype"
       /\ PAGE_STATES[i] = Untyped
       /\ PAGE_STATES'[i].state = "Typed"
    \/ /\ last'.kind = "dealloc"
       /\ PAGE_STATES[i].state \in {"Untyped", "Typed"}
       /\ PAGE_STATES'[i] = Unused

\* C29: every change of the state of a physical page follows the lifecycle: Unused to
\* Untyped by allocation, Untyped to Typed by retype, Untyped or Typed to Unused by
\* deallocation; a retype of a page that is Unused or Typed is undefined behaviour
\* and leaves the state of the page as it is.
C29_PageStateLifecycle ==
    [][/\ \A i \in PhysPages : LifecycleStep(i)
       /\ last'.kind = "retype" =>
             \A i \in Requested :
                 PAGE_STATES[i] # Untyped => (last'.ub /\ PAGE_STATES'[i] = PAGE_STATES[i])
      ]_vars

ClearsTable(c) ==
    /\ pc[c].op = "clr_do"
    /\ pc'[c].op = "idle"
    /\ last'.kind = "clear"
    /\ last'.res = "Ok"

\* C31: clear() modifies the page table only in states where no CPU other than the
\* caller has that page table loaded as its root table and no cursor of the VmSpace
\* is alive, whatever activate() calls run on the other CPUs.
C31_ClearOnlyUnloadedTable ==
    [][\A c \in CpuIds :
          ClearsTable(c) =>
              /\ \A d \in CpuIds \ {c} : root[d] # pc[c].vs
              /\ CursorsOf(pc[c].vs) = {}
      ]_vars

(***************************************************************************)
(* Properties of the activation lock as a reader/writer lock.              *)
(***************************************************************************)
\* The CPUs that hold the activation lock of vs as readers without a cursor yet, and
\* the CPUs that hold it as writers, inside activate() or clear().
ReadingWithoutCursor(vs) == {c \in CpuIds : pc[c].op = "cm_load" /\ pc[c].vs = vs}

WriteHolders(vs) ==
    ActivatingPastLock(vs)
    \cup {c \in CpuIds : pc[c].op \in {"clr_load", "clr_do"} /\ pc[c].vs = vs}

\* Readers are the mutable cursors; at most one writer, and then no reader; a reader
\* waits for a writer only, never for another reader.
ReaderManyWriterOne ==
    /\ \A vs \in VmSpaces :
          /\ rw[vs].readers =
                Cardinality(MutCursorsOf(vs)) + Cardinality(ReadingWithoutCursor(vs))
          /\ Cardinality(WriteHolders(vs)) <= 1
          /\ rw[vs].writer = (WriteHolders(vs) # {})
          /\ rw[vs].writer => rw[vs].readers = 0
    /\ \A c \in CpuIds :
          (pc[c].op = "cm_read" /\ ~rw[pc[c].vs].writer) => ENABLED CursorMutRead(c)

\* C32: the activation lock is held by any number of mutable cursors at once or by
\* one activate() or clear() alone; and if every cursor is dropped in the end, every
\* call returns: an activate() that waited for mutable cursors completes.
C32_ActivationLockCompletes ==
    /\ []ReaderManyWriterOne
    /\ (<>[](cursors = {})) => <>[](\A c \in CpuIds : pc[c].op = "idle")

\* Two mutable cursors of a VmSpace hold its activation lock while a CPU inside
\* activate() of that VmSpace waits for it.
C32_Witness ==
    \E vs \in VmSpaces :
        /\ Cardinality(MutCursorsOf(vs)) >= 2
        /\ rw[vs].readers >= 2
        /\ ActivatingAtLock(vs) # {}

(***************************************************************************)
(* Properties of the flushes that unmap issues.                            *)
(***************************************************************************)
IssuedIn(log) == SelectSeq(log, LAMBDA e : e.ev = "issue")

RemovedIn(log) == SelectSeq(log, LAMBDA e : e.ev = "take")

\* The positions of the dispatches of a log, and of its page-table changes and issues.
DispatchesOf(log) == {i \in 1 .. Len(log) : log[i].ev = "dispatch"}

WorkOf(log) == {i \in 1 .. Len(log) : log[i].ev \in {"take", "issue"}}

\* C33: unmap(len) issues one flush-all and no single-address flush exactly when len
\* exceeds FLUSH_ALL_RANGE_THRESHOLD and its flusher needs no remote flush; otherwise
\* it issues one single-address flush for each mapping it removed, with the frame
\* removed, and no flush-all; and it dispatches the flusher once, after the last
\* change of the page table and the last issue, even when it unmapped nothing.
C33_UnmapFlushChoice ==
    last.kind = "unmap" =>
        LET issued == IssuedIn(last.log)
            taken == RemovedIn(last.log)
        IN  /\ IF last.len > FLUSH_ALL_RANGE_THRESHOLD /\ ~last.need_remote
               THEN issued = <<EvIssue(OpAll, 0, 0)>>
               ELSE /\ Len(issued) = Len(taken)
                    /\ \A i \in 1 .. Len(issued) :
                          issued[i] = EvIssue(OpAddress(taken[i].va), taken[i].va,
                                              taken[i].paddr)
            /\ Cardinality(DispatchesOf(last.log)) = 1
            /\ \A d \in DispatchesOf(last.log), w \in WorkOf(last.log) : w < d

\* An unmap of more than the threshold has removed mappings without a remote flush,
\* with one flush-all.
C33_Witness ==
    /\ last.kind = "unmap"
    /\ last.len > FLUSH_ALL_RANGE_THRESHOLD
    /\ ~last.need_remote
    /\ Len(RemovedIn(last.log)) >= 2
    /\ Len(IssuedIn(last.log)) = 1

(***************************************************************************)
(* Properties of the panics of unmap and query.                            *)
(***************************************************************************)
\* The step is a call of unmap, or of query, that returned or panicked.
UnmapCalled ==
    last'.kind = "vm_unmap" \/ (last'.kind = "panic" /\ last'.op = "unmap")

QueryCalled ==
    last'.kind = "vm_query" \/ (last'.kind = "panic" /\ last'.op = "query")

\* The slots of [va, va + len) that hold memory that is not tracked.
UntrackedIn(va, len) ==
    {p \in PageNos : /\ va <= p * PAGE_SIZE
                     /\ p * PAGE_SIZE < va + len
                     /\ pt_cursor.items[p] = "Untracked"}

\* C34: unmap(len) panics when len is not a multiple of the page size, and then no
\* mapping has changed; it panics when it meets a mapping that is not tracked; and
\* query panics on a mapping that is not tracked or is a frame of typed memory.
C34_UnmapAndQueryPanic ==
    [][/\ (UnmapCalled /\ last'.len % PAGE_SIZE # 0)
             => (last'.kind = "panic" /\ pt_cursor' = pt_cursor)
       /\ (UnmapCalled /\ last'.len % PAGE_SIZE = 0
                       /\ UntrackedIn(pt_cursor.va, last'.len) # {})
             => last'.kind = "panic"
       /\ (QueryCalled /\ pt_cursor.items[PageOf(pt_cursor.va)] \in {"Untracked", "Typed"})
             => last'.kind = "panic"
      ]_vars

\* unmap has panicked on a length that is not a multiple of the page size, over a
\* slot that holds a mapping.
C34_Witness ==
    /\ last.kind = "panic"
    /\ last.op = "unmap"
    /\ last.len % PAGE_SIZE # 0
    /\ pt_cursor.items[PageOf(last.va)] # "NotMapped"

(***************************************************************************)
(* Properties of the queues of inter-processor calls.                      *)
(***************************************************************************)
\* The entries of call id in the queue of the CPU.
QueuedOn(id, cpu) == {i \in DOMAIN CALL_QUEUES[cpu] : CALL_QUEUES[cpu][i].id = id}

\* The executions of the function of call id by the handler of the CPU.
HandledOn(id, cpu) == {r \in ran : r.id = id /\ r.cpu = cpu /\ r.ctx = "irq"}

\* The first loop of call id has pushed f on the queue of the CPU.
PushedTo(id, cpu) ==
    LET call == ipc_calls[id]
        r == ipc_pc[call.cpu]
    IN  /\ cpu \in call.targets \ {call.cpu}
        /\ ~(r.op = "push" /\ r.id = id /\ cpu \in r.todo)

\* A function that was pushed is in the queue once and not executed, or out of the
\* queue and executed once by the CPU of the queue; one that was not pushed is neither.
QueuedOrHandledOnce ==
    \A id \in IpcIds, cpu \in CpuIds :
        IpcMade(id) =>
            /\ Cardinality(QueuedOn(id, cpu)) + Cardinality(HandledOn(id, cpu))
                  = IF PushedTo(id, cpu) THEN 1 ELSE 0
            /\ \A r \in HandledOn(id, cpu) : r.f = ipc_calls[id].f

\* A queue changes at its back by a push, or at its front by the handler of its CPU,
\* which executes the function it removed, for the first time.
FifoStep(cpu) ==
    LET q == CALL_QUEUES[cpu]
    IN  \/ CALL_QUEUES'[cpu] = q
        \/ /\ Len(CALL_QUEUES'[cpu]) = Len(q) + 1
           /\ SubSeq(CALL_QUEUES'[cpu], 1, Len(q)) = q
           /\ ran' = ran
        \/ /\ q # <<>>
           /\ CALL_QUEUES'[cpu] = Tail(q)
           /\ ipc_pc[cpu].op = "irq"
           /\ LET e == [id |-> Head(q).id, cpu |-> cpu, f |-> Head(q).f, ctx |-> "irq"]
              IN  e \notin ran /\ ran' = ran \cup {e}

\* The handler returns on an empty queue: it has removed every entry.
HandlerReturnsOnEmpty(cpu) ==
    (ipc_pc[cpu].op = "irq" /\ ipc_pc'[cpu].op # "irq")
        => (CALL_QUEUES[cpu] = <<>> /\ CALL_QUEUES'[cpu] = <<>>)

RemoteTargets(id) == ipc_calls[id].targets \ {ipc_calls[id].cpu}

\* f of call id has reached the CPU: it is in its queue or was executed by its handler.
Reached(id, cpu) == QueuedOn(id, cpu) # {} \/ HandledOn(id, cpu) # {}

\* The interrupt of call id is on its way to the CPU or has been taken: it is pending,
\* or the handler is running, or the handler has executed f.
Interrupted(id, cpu) ==
    ipi_pending[cpu] \/ ipc_pc[cpu].op = "irq" \/ HandledOn(id, cpu) # {}

\* A call that is in its second loop has pushed f to every other target.
PushedBeforeFirstIpi ==
    \A c \in CpuIds :
        ipc_pc[c].op \in {"send", "self", "ret"}
            => \A t \in RemoteTargets(ipc_pc[c].id) : Reached(ipc_pc[c].id, t)

\* An interrupt is sent by a call, to one of its other targets, once f is in the queue
\* of every one of them.
IpiAfterPushes ==
    \A t \in CpuIds :
        (ipi_pending'[t] /\ ~ipi_pending[t])
            => \E c \in CpuIds \ {t} :
                  /\ ipc_pc[c].op = "send"
                  /\ t \in RemoteTargets(ipc_pc[c].id)
                  /\ \A u \in RemoteTargets(ipc_pc[c].id) : Reached(ipc_pc[c].id, u)

\* The calling CPU runs f once the interrupt was sent to every other target.
SelfAfterIpis ==
    \A r \in ran' \ ran :
        r.ctx = "sync" => \A t \in RemoteTargets(r.id) : Interrupted(r.id, t)

\* A handler that finds its queue empty returns, and changes nothing else.
EmptyQueueHarmless ==
    \A t \in CpuIds :
        (ipc_pc[t].op = "irq" /\ CALL_QUEUES[t] = <<>> /\ ipc_pc'[t] # ipc_pc[t])
            => /\ ipc_pc'[t] = SmpIdle
               /\ UNCHANGED <<CALL_QUEUES, ipi_pending, ipc_calls, ran>>

\* C36: inter_processor_call pushes f to every other target before it sends the first
\* interrupt, and runs f on the calling CPU after all the interrupts are sent; as every
\* interrupt is delivered, every function that was pushed is executed; and an
\* interrupt that finds the queue empty does nothing: the handler returns.
C36_PushThenIpiThenSelf ==
    /\ []PushedBeforeFirstIpi
    /\ [][IpiAfterPushes /\ SelfAfterIpis /\ EmptyQueueHarmless]_vars
    /\ \A id \in IpcIds, t \in CpuIds :
          (IpcMade(id) /\ PushedTo(id, t)) ~> (HandledOn(id, t) # {})
    /\ \A t \in CpuIds : ipi_pending[t] ~> (ipc_pc[t].op = "irq")
    /\ \A t \in CpuIds : (ipc_pc[t].op = "irq") ~> (ipc_pc[t] = SmpIdle)

\* Every call has returned and every function was executed, and an interrupt is still
\* pending on a CPU whose queue is empty.
C36_Witness ==
    /\ Len(ipc_calls) = MaxIpcCalls
    /\ \A id \in IpcIds : ipc_calls[id].returned
    /\ \E t \in CpuIds :
          /\ ipi_pending[t]
          /\ ipc_pc[t] = SmpIdle
          /\ CALL_QUEUES[t] = <<>>
          /\ \E id \in IpcIds : HandledOn(id, t) # {}

(***************************************************************************)
(* Properties of the deallocation of several pages.                        *)
(***************************************************************************)
\* C37: free_allocations(paddr, count) with count >= 1 on pages that are all allocated
\* raises no undefined behaviour and leaves exactly those pages Unused, the state of
\* every other page unchanged.
C37_FreeOfAllocatedRange ==
    [][(/\ last'.kind = "dealloc"
        /\ last'.count >= 1
        /\ \A i \in Requested : PAGE_STATES[i] # Unused)
          => /\ ~last'.ub
             /\ PAGE_STATES' = [i \in PhysPages |->
                                   IF i \in Requested THEN Unused ELSE PAGE_STATES[i]]
      ]_vars

(***************************************************************************)
(* Properties of the raw references of ACTIVATED_VM_SPACE.                 *)
(***************************************************************************)
\* The CPUs inside activate() that have stored the new pointer and still hold the
\* pointer loaded before, of the VmSpace, to restore.
Restoring(vs) == {c \in CpuIds : pc[c].op = "act_remove" /\ pc[c].last_ptr = vs}

RestoredOnce(vs) ==
    raw_refs'[vs] < raw_refs[vs]
        => /\ raw_refs'[vs] = raw_refs[vs] - 1
           /\ \E c \in Restoring(vs) :
                 /\ pc'[c].op = "act_switch"
                 /\ pc[c].vs # vs
                 /\ activated[c] = pc[c].vs

PropBits == {PTF_READABLE, PTF_WRITABLE, PTF_EXECUTABLE, PTF_USER, PTF_GLOBAL,
             PTF_UNCACHEABLE, PTF_WRITE_THROUGH}

\* The entry with a bit cleared.
ClearBit(raw, bit) == IF HasBit(raw, bit) THEN raw - bit ELSE raw

\* The entry without the bits of the permissions and of the cache policy.
OtherBits(raw) ==
    ClearBit(ClearBit(ClearBit(ClearBit(ClearBit(ClearBit(ClearBit(raw,
        PTF_READABLE), PTF_WRITABLE), PTF_EXECUTABLE), PTF_USER), PTF_GLOBAL),
        PTF_UNCACHEABLE), PTF_WRITE_THROUGH)

\* C39: new_pt(paddr) is present, is a leaf at no level and returns paddr; new_page(paddr,
\* level, prop) is present, is a leaf at every level and returns paddr; set_prop changes
\* the bits of the permissions and of the cache policy only, never the address or the
\* mark of a leaf; the entry of all zeros is absent; and no entry is made or changed with
\* a cache policy that has no encoding: the policy an entry holds is the one it was given.
C39_EntryCodec ==
    /\ ~PteIsPresent(PteAbsent)
    /\ last.kind = "new_pt" =>
          /\ PteIsPresent(last.raw)
          /\ ~PteIsLast(last.raw)
          /\ PtePaddr(last.raw) = last.paddr
          /\ PHYSICAL_MEM[last.table][last.index] = last.raw
    /\ last.kind = "new_page" =>
          /\ PteIsPresent(last.raw)
          /\ PteIsLast(last.raw)
          /\ PtePaddr(last.raw) = last.paddr
          /\ PteProp(last.raw).cache = last.prop.cache
          /\ PteProp(last.raw).flags = last.prop.flags
    /\ last.kind = "set_prop" =>
          /\ PtePaddr(last.raw) = PtePaddr(last.before)
          /\ PteIsLast(last.raw) = PteIsLast(last.before)
          /\ PteIsPresent(last.raw)
          /\ OtherBits(last.raw) = OtherBits(last.before)
          /\ PteProp(last.raw).cache = last.prop.cache
          /\ PteProp(last.raw).flags = last.prop.flags
    /\ (Panicked /\ last.op \in {"new_page", "set_prop"}) =>
          last.prop.cache \in {"WriteCombining", "WriteProtected"}

\* set_prop has changed the permissions and the cache policy of an entry to
\* Uncacheable, while a leaf entry holds the policy Writethrough.
C39_Witness ==
    /\ last.kind = "set_prop"
    /\ PteProp(last.raw) # PteProp(last.before)
    /\ PteProp(last.raw).cache = "Uncacheable"
    /\ \E e \in WrittenEntries :
          /\ PteIsLast(PHYSICAL_MEM[e.page][e.index])
          /\ PteProp(PHYSICAL_MEM[e.page][e.index]).cache = "Writethrough"

(***************************************************************************)
(* Properties of the walk of the interpreter.                              *)
(***************************************************************************)
\* The walk by the encoding of the kernel, from the table at paddr of the level:
\* an absent entry maps nothing, a leaf maps a page of the size of its level, and any
\* other entry points to the table of the next level.
RECURSIVE EncodedWalkFrom(_, _, _, _)
EncodedWalkFrom(mem, paddr, level, vaddr) ==
    IF level < 1 \/ paddr \div PAGE_SIZE \notin MemPages
    THEN [kind |-> "None", pa |-> 0]
    ELSE LET entry == mem[paddr \div PAGE_SIZE][PteIndex(vaddr, level)]
         IN  IF ~PteIsPresent(entry) THEN [kind |-> "None", pa |-> 0]
             ELSE IF PteIsLast(entry)
             THEN [kind |-> "Some", pa |-> PtePaddr(entry) + (vaddr % LevelSize(level))]
             ELSE EncodedWalkFrom(mem, PtePaddr(entry), level - 1, vaddr)

\* The three mappings of the boot page table give the physical address back.
BootWalkIsIdentity ==
    \A p \in {q * PAGE_SIZE + off : q \in 0 .. (TOTAL_MEM_PAGES - 1), off \in {0, 1}} :
        \A base \in {0, LINEAR_MAPPING_BASE_VADDR, KERNEL_CODE_BASE_VADDR} :
            PageWalk(InitBootPt, BOOT_PT_PADDR, base + p) = [kind |-> "Some", pa |-> p]

\* C40: page_walk returns Some(pa) only for an address that a present leaf entry covers,
\* reached through present entries of tables, and pa is then the base of the leaf plus
\* the offset of the address in a page of the size of the level of the leaf; and in the
\* boot page table the walks of p, of LINEAR_MAPPING_BASE_VADDR + p and of
\* KERNEL_CODE_BASE_VADDR + p all give p, for every p below TOTAL_MEM.
C40_WalkAgreesWithEncoding ==
    /\ BootWalkIsIdentity
    /\ (last.kind = "page_walk" /\ last.res.kind = "Some") =>
          EncodedWalkFrom(PHYSICAL_MEM, BOOT_PT_PADDR, NR_LEVELS, last.vaddr) = last.res

====
